---- MODULE Spec2Model ----
(***************************************************************************)
(* apcupsd-nut-proxy: the NUT command interpreter (commandReceived), the   *)
(* telemetry cache (ApcValues.reload / getOk), the variable loaders, the   *)
(* per-connection session loop (handleConnection) and the accept loop      *)
(* (startProxy), as a state machine.                                       *)
(*                                                                         *)
(* Go strings are TLA+ strings; Go's s[i:j] is SubSeq(s, i+1, j).          *)
(***************************************************************************)
EXTENDS Integers, Sequences, FiniteSets, TLC

(***************************************************************************)
(* Bounds of the model.                                                    *)
(***************************************************************************)
\* connections the listener may accept
MaxConns == 2
\* lines the client of a single session may send
MaxCmds == 2
\* lines each client may send when several sessions run side by side
MaxConcCmds == 1
\* ticks of the wall clock
MaxTime == 2
\* lines of one apcaccess output
MaxOutLines == 2
\* pieces of text after a command keyword on a request line
MaxPieces == 3

(***************************************************************************)
(* Go's strings package, as far as the program uses it.                    *)
(***************************************************************************)
\* unicode.IsSpace on the characters the model's texts are made of
IsSpace(c) == c \in {" ", "\t", "\n", "\r", "\f"}

\* s[i:] with Go's 0-based index i
StrFrom(s, i) == SubSeq(s, i + 1, Len(s))

\* s[:i] with Go's 0-based index i
StrTo(s, i) == SubSeq(s, 1, i)

HasPrefix(s, prefix) ==
    /\ Len(s) >= Len(prefix)
    /\ SubSeq(s, 1, Len(prefix)) = prefix

\* strings.Index: 0-based position of the first occurrence of sub, or -1
StrIndex(s, sub) ==
    LET hits == {i \in 0..(Len(s) - Len(sub)) : SubSeq(s, i + 1, i + Len(sub)) = sub}
    IN  IF hits = {} THEN -1 ELSE CHOOSE i \in hits : \A j \in hits : i <= j

StrContains(s, sub) == StrIndex(s, sub) >= 0

TrimSpace(s) ==
    LET keep == {i \in 1..Len(s) : ~IsSpace(SubSeq(s, i, i))}
    IN  IF keep = {} THEN ""
        ELSE LET lo == CHOOSE i \in keep : \A j \in keep : i <= j
                 hi == CHOOSE i \in keep : \A j \in keep : i >= j
             IN  SubSeq(s, lo, hi)

\* strings.Split(s, sep) for a non-empty separator: always at least one token
RECURSIVE StrSplit(_, _)
StrSplit(s, sep) ==
    LET pos == StrIndex(s, sep)
    IN  IF pos = -1 THEN <<s>>
        ELSE <<StrTo(s, pos)>> \o StrSplit(StrFrom(s, pos + Len(sep)), sep)

\* bufio.ScanLines: a trailing carriage return of a line is dropped
DropCR(line) ==
    IF Len(line) > 0 /\ SubSeq(line, Len(line), Len(line)) = "\r"
    THEN StrTo(line, Len(line) - 1)
    ELSE line

\* the tokens bufio.Scanner yields over data: the newline-terminated lines,
\* and a last unterminated line when it is not empty
RECURSIVE ScanLines(_)
ScanLines(data) ==
    IF data = "" THEN <<>>
    ELSE LET pos == StrIndex(data, "\n")
         IN  IF pos = -1 THEN <<DropCR(data)>>
             ELSE <<DropCR(StrTo(data, pos))>> \o ScanLines(StrFrom(data, pos + 1))

\* the concatenation of a sequence of strings
RECURSIVE Concat(_)
Concat(parts) ==
    IF parts = <<>> THEN "" ELSE Head(parts) \o Concat(Tail(parts))

\* all sequences over S of length at most n
SeqsUpTo(S, n) == UNION {[1..k -> S] : k \in 0..n}

(***************************************************************************)
(* The telemetry cache: ApcValues.                                         *)
(***************************************************************************)
\* the empty map
EmptyMap == [k \in {} |-> ""]

\* a store that keeps the value a key already has
MapPutFirst(m, key, value) ==
    [k \in (DOMAIN m) \cup {key} |-> IF k \in DOMAIN m THEN m[k] ELSE value]

\* m[key] = value on a Go map
MapPut(m, key, value) ==
    [k \in (DOMAIN m) \cup {key} |-> IF k = key THEN value ELSE m[k]]

\* NewApcValues: an empty map, refreshed at the Unix epoch
NewApcValues == [values |-> EmptyMap, refreshTime |-> 0]

\* a lookup that takes a key with an empty value for a missing one
getOkNonEmpty(av, name) ==
    IF name \in DOMAIN av.values /\ av.values[name] # ""
    THEN [val |-> av.values[name], found |-> TRUE]
    ELSE [val |-> "", found |-> FALSE]

getOk(av, name) ==
    IF name \in DOMAIN av.values
    THEN [val |-> av.values[name], found |-> TRUE]
    ELSE [val |-> "", found |-> FALSE]

get(av, name) == getOk(av, name).val

\* the scanner loop of reload over the lines from position i on, writing
\* into the map that ar.values already refers to
RECURSIVE reloadScan(_, _, _)
reloadScan(lines, i, values) ==
    IF i > Len(lines) THEN [values |-> values, err |-> ""]
    ELSE LET line == lines[i]
             pos == StrIndex(line, ":")
         IN  IF TrimSpace(line) = "" THEN reloadScan(lines, i + 1, values)
             ELSE IF pos = -1
                  THEN [values |-> values, err |-> "Invalid line in apcaccess output"]
                  ELSE reloadScan(lines, i + 1,
                                  MapPut(values, TrimSpace(StrTo(line, pos)),
                                         TrimSpace(StrFrom(line, pos + 1))))

\* a reload that keeps filling the map of the previous refresh
reloadKeepMap(ar) == ar.values

\* the map reload starts filling once the tool has returned
reloadFreshMap(ar) == EmptyMap

\* a reload that empties the map before it runs the tool
reloadResetsFirst(ar, result, now) ==
    IF result.err
    THEN [av |-> [ar EXCEPT !.values = EmptyMap], err |-> "Error invoking apcaccess"]
    ELSE LET scan == reloadScan(ScanLines(result.out), 1, reloadFreshMap(ar))
         IN  IF scan.err # ""
             THEN [av |-> [ar EXCEPT !.values = scan.values], err |-> scan.err]
             ELSE [av |-> [values |-> scan.values, refreshTime |-> now], err |-> ""]

\* a reload that records the time of every run of the tool that gave output
reloadStampsAlways(ar, result, now) ==
    IF result.err
    THEN [av |-> ar, err |-> "Error invoking apcaccess"]
    ELSE LET scan == reloadScan(ScanLines(result.out), 1, reloadFreshMap(ar))
         IN  [av |-> [values |-> scan.values, refreshTime |-> now], err |-> scan.err]

\* ApcValues.reload with the outcome of the tool's run (result.err: it could
\* not run or exited abnormally; result.out: its standard output) at time now
reload(ar, result, now) ==
    IF result.err
    THEN [av |-> ar, err |-> "Error invoking apcaccess"]
    ELSE LET scan == reloadScan(ScanLines(result.out), 1, reloadFreshMap(ar))
         IN  IF scan.err # ""
             THEN [av |-> [ar EXCEPT !.values = scan.values], err |-> scan.err]
             ELSE [av |-> [values |-> scan.values, refreshTime |-> now], err |-> ""]

(***************************************************************************)
(* strconv.ParseFloat(s, 32) and int(val * 60), on decimal numerals        *)
(* (digits with at most one point, an optional sign): each text the        *)
(* model's telemetry holds is such a numeral or no number at all.          *)
(***************************************************************************)
IsDigit(c) == c \in {"0", "1", "2", "3", "4", "5", "6", "7", "8", "9"}

DigitVal(c) ==
    CASE c = "0" -> 0 [] c = "1" -> 1 [] c = "2" -> 2 [] c = "3" -> 3
      [] c = "4" -> 4 [] c = "5" -> 5 [] c = "6" -> 6 [] c = "7" -> 7
      [] c = "8" -> 8 [] c = "9" -> 9

RECURSIVE Pow(_, _)
Pow(b, n) == IF n = 0 THEN 1 ELSE b * Pow(b, n - 1)

\* the value of a string of digits
RECURSIVE DigitsVal(_)
DigitsVal(s) ==
    IF s = "" THEN 0
    ELSE 10 * DigitsVal(StrTo(s, Len(s) - 1)) + DigitVal(SubSeq(s, Len(s), Len(s)))

\* a text that is no numeral read as zero instead of refused
ParseDecimalLenient(s) ==
    LET neg  == HasPrefix(s, "-")
        body == IF HasPrefix(s, "-") \/ HasPrefix(s, "+") THEN StrFrom(s, 1) ELSE s
        dot  == StrIndex(body, ".")
        ip   == IF dot = -1 THEN body ELSE StrTo(body, dot)
        fp   == IF dot = -1 THEN "" ELSE StrFrom(body, dot + 1)
        ds   == ip \o fp
    IN  IF ds = "" \/ \E i \in 1..Len(ds) : ~IsDigit(SubSeq(ds, i, i))
        THEN [ok |-> TRUE, neg |-> FALSE, num |-> 0, den |-> 1]
        ELSE [ok |-> TRUE, neg |-> neg, num |-> DigitsVal(ds), den |-> Pow(10, Len(fp))]

\* the numeral s as the exact fraction num/den with a sign, or ok = FALSE
ParseDecimal(s) ==
    LET neg  == HasPrefix(s, "-")
        body == IF HasPrefix(s, "-") \/ HasPrefix(s, "+") THEN StrFrom(s, 1) ELSE s
        dot  == StrIndex(body, ".")
        ip   == IF dot = -1 THEN body ELSE StrTo(body, dot)
        fp   == IF dot = -1 THEN "" ELSE StrFrom(body, dot + 1)
        ds   == ip \o fp
    IN  IF ds = "" \/ \E i \in 1..Len(ds) : ~IsDigit(SubSeq(ds, i, i))
        THEN [ok |-> FALSE, neg |-> FALSE, num |-> 0, den |-> 1]
        ELSE [ok |-> TRUE, neg |-> neg, num |-> DigitsVal(ds), den |-> Pow(10, Len(fp))]

\* num/den > 0 scaled by a power of two into [2^23, 2^24): the fraction
\* n/d and the exponent exp with num/den = (n/d) * 2^exp
RECURSIVE Normalize(_, _, _)
Normalize(n, d, exp) ==
    IF n < Pow(2, 23) * d THEN Normalize(2 * n, d, exp - 1)
    ELSE IF n \div Pow(2, 24) >= d THEN Normalize(n, 2 * d, exp + 1)
    ELSE [n |-> n, d |-> d, exp |-> exp]

\* the float32 nearest to num/den > 0 (ties to even), as mant * 2^exp
RoundFloat32(num, den) ==
    LET f  == Normalize(num, den, 0)
        q  == f.n \div f.d
        r  == f.n % f.d
        up == 2 * r > f.d \/ (2 * r = f.d /\ q % 2 = 1)
    IN  [mant |-> IF up THEN q + 1 ELSE q, exp |-> f.exp]

\* strconv.Itoa
RECURSIVE Itoa(_)
Itoa(n) ==
    IF n < 0 THEN "-" \o Itoa(-n)
    ELSE IF n < 10 THEN SubSeq("0123456789", n + 1, n + 1)
    ELSE Itoa(n \div 10) \o SubSeq("0123456789", (n % 10) + 1, (n % 10) + 1)

\* int(val * 60) for val = ParseFloat(s, 32): the product of a float32 and
\* 60 is exact in float64, and the conversion truncates toward zero
MinInSec(p) ==
    IF p.num = 0 THEN 0
    ELSE LET f == RoundFloat32(p.num, p.den)
             a == IF f.exp >= 0 THEN f.mant * 60 * Pow(2, f.exp)
                  ELSE (f.mant * 60) \div Pow(2, -f.exp)
         IN  IF p.neg THEN -a ELSE a

(***************************************************************************)
(* The variable loaders.  A VarLoader is a record naming its constructor   *)
(* and its arguments; Load applies it.                                     *)
(***************************************************************************)
FixedValue(value) == [kind |-> "FixedValue", value |-> value]

IgnoreValue == FixedValue("")

ApcValue(apcKey, fallback) ==
    [kind |-> "ApcValue", apcKey |-> apcKey, fallback |-> fallback]

ApcValueMinInSec(apcKey, fallback) ==
    [kind |-> "ApcValueMinInSec", apcKey |-> apcKey, fallback |-> fallback]

UpsBatteryRuntime == ApcValueMinInSec("TIMELEFT", IgnoreValue)

\* the loaders of the tests: one that gives "1" and one that fails
NumberVarLoader == FixedValue("1")

FailingVarLoader == [kind |-> "FailingVarLoader"]

\* UpsStatus, with the order in which this call's range over
\* statusToResultMappings visits the keys of the map
UpsStatusVisiting(order) == [kind |-> "UpsStatus", order |-> order]

\* the keys of statusToResultMappings, as the map literal lists them
StatusKeys ==
    <<"ONLINE", "ONBATT", "LOWBATT", "CAL", "OVERLOAD", "TRIM", "BOOST", "REPLACEBATT",
      "SHUTTING DOWN", "COMMLOST">>

statusToResultMappings ==
    [s \in {StatusKeys[i] : i \in DOMAIN StatusKeys} |->
        CASE s = "ONLINE"        -> "OL"
          [] s = "ONBATT"        -> "OB DISCHRG"
          [] s = "LOWBATT"       -> "LB"
          [] s = "CAL"           -> "CAL"
          [] s = "OVERLOAD"      -> "OVER"
          [] s = "TRIM"          -> "TRIM"
          [] s = "BOOST"         -> "BOOST"
          [] s = "REPLACEBATT"   -> "RB"
          [] s = "SHUTTING DOWN" -> "SD"
          [] s = "COMMLOST"      -> "OFF"]

\* orders in which a range over statusToResultMappings may visit its keys.
\* Go leaves the order of a range over a map unspecified; what the loop of
\* UpsStatus returns depends only on which key is visited first among
\* those that occur in the value, and every key is the first of one of
\* these orders
StatusOrders ==
    {[i \in DOMAIN StatusKeys |-> StatusKeys[((i + k - 1) % Len(StatusKeys)) + 1]] :
        k \in 0..(Len(StatusKeys) - 1)}

\* the loop of UpsStatus over the keys of the map from position i of order
\* on: the first key visited that occurs in value decides, and without one
\* the result is IgnoreValue's
RECURSIVE statusLoop(_, _, _)
statusLoop(order, i, value) ==
    IF i > Len(order) THEN ""
    ELSE IF StrContains(value, order[i])
         THEN statusToResultMappings[order[i]] \o " " \o value
         ELSE statusLoop(order, i + 1, value)

\* val <= k instead of val < k
ParsedAtMost(p, k) ==
    IF p.num = 0 \/ p.neg THEN TRUE
    ELSE LET f == RoundFloat32(p.num, p.den)
         IN  IF f.exp >= 0 THEN f.mant * Pow(2, f.exp) <= k
             ELSE f.mant <= k * Pow(2, -f.exp)

\* val < k for val = ParseFloat(s, 32) of the numeral p and an integer k > 0
ParsedBelow(p, k) ==
    IF p.num = 0 \/ p.neg THEN TRUE
    ELSE LET f == RoundFloat32(p.num, p.den)
         IN  IF f.exp >= 0 THEN f.mant * Pow(2, f.exp) < k
             ELSE f.mant \div Pow(2, -f.exp) < k

\* the result (value, err) of the loader for variable name; err = "" is nil
RECURSIVE Load(_, _, _, _)
Load(loader, name, config, av) ==
    CASE loader.kind = "FixedValue" ->
            [value |-> loader.value, err |-> ""]
      [] loader.kind = "FailingVarLoader" ->
            [value |-> "", err |-> "FailingVarLoader"]
      [] loader.kind = "ApcValue" ->
            LET r == getOk(av, loader.apcKey)
            IN  IF ~r.found THEN Load(loader.fallback, name, config, av)
                ELSE [value |-> r.val, err |-> ""]
      [] loader.kind = "ApcValueMinInSec" ->
            LET r == Load(ApcValue(loader.apcKey, loader.fallback), name, config, av)
                p == ParseDecimal(r.value)
            IN  IF r.err # "" THEN [value |-> "", err |-> r.err]
                ELSE IF r.value = "" THEN [value |-> "", err |-> ""]
                ELSE IF ~p.ok
                     THEN [value |-> "",
                           err |-> "Couldn't format " \o loader.apcKey \o " value "
                                   \o r.value
                                   \o " as float: strconv.ParseFloat: parsing \""
                                   \o r.value \o "\": invalid syntax"]
                     ELSE [value |-> Itoa(MinInSec(p)), err |-> ""]

\* UpsStatus, its range over statusToResultMappings visiting the keys in
\* this order
UpsStatus(name, config, av, order) ==
    LET status   == Load(ApcValue("STATUS", IgnoreValue), name, config, av)
        charging == Load(ApcValue("BCHARGE", IgnoreValue), name, config, av)
        p        == ParseDecimal(charging.value)
    IN  IF status.err # "" THEN [value |-> "", err |-> status.err]
        ELSE IF status.value = "" THEN [value |-> "", err |-> ""]
        ELSE IF StrContains(status.value, "ONLINE")
        THEN IF charging.value # "" /\ charging.err = "" /\ p.ok /\ ParsedBelow(p, 100)
             THEN [value |-> "CHRG " \o status.value, err |-> ""]
             ELSE [value |-> "OL " \o status.value, err |-> ""]
        ELSE [value |-> statusLoop(order, 1, status.value), err |-> ""]

\* the VarLoader UpsSelfTest as a value of the registry
UpsSelfTestLoader == [kind |-> "UpsSelfTest"]

\* the tests for NO and OK in the opposite order
UpsSelfTestNoFirst(name, config, av) ==
    LET r == Load(ApcValue("SELFTEST", IgnoreValue), name, config, av)
    IN  IF r.err # "" THEN [value |-> "", err |-> r.err]
        ELSE IF r.value = "" THEN [value |-> "", err |-> ""]
        ELSE IF StrContains(r.value, "NO")
             THEN [value |-> "No Test in the last 5mins", err |-> ""]
        ELSE IF StrContains(r.value, "BT")
             THEN [value |-> "FAILED - Battery Capacity LOW", err |-> ""]
        ELSE IF StrContains(r.value, "NG") THEN [value |-> "FAILED - Overload", err |-> ""]
        ELSE IF StrContains(r.value, "OK") THEN [value |-> "OK - Battery GOOD", err |-> ""]
        ELSE Load(IgnoreValue, name, config, av)

UpsSelfTest(name, config, av) ==
    LET r == Load(ApcValue("SELFTEST", IgnoreValue), name, config, av)
    IN  IF r.err # "" THEN [value |-> "", err |-> r.err]
        ELSE IF r.value = "" THEN [value |-> "", err |-> ""]
        ELSE IF StrContains(r.value, "OK") THEN [value |-> "OK - Battery GOOD", err |-> ""]
        ELSE IF StrContains(r.value, "BT")
             THEN [value |-> "FAILED - Battery Capacity LOW", err |-> ""]
        ELSE IF StrContains(r.value, "NG") THEN [value |-> "FAILED - Overload", err |-> ""]
        ELSE IF StrContains(r.value, "NO")
             THEN [value |-> "No Test in the last 5mins", err |-> ""]
        ELSE Load(IgnoreValue, name, config, av)

\* the VarLoader UpsModel as a value of the registry
UpsModelLoader == [kind |-> "UpsModel"]

\* a model that gives nothing without a nominal power
UpsModelNeedsPower(name, config, av) ==
    LET r        == Load(ApcValue("MODEL", IgnoreValue), name, config, av)
        nomPower == Load(ApcValue("NOMPOWER", IgnoreValue), name, config, av)
    IN  IF r.err # "" THEN [value |-> "", err |-> r.err]
        ELSE IF r.value = "" THEN [value |-> "", err |-> ""]
        ELSE IF nomPower.value # "" /\ nomPower.err = ""
             THEN [value |-> r.value \o " (" \o nomPower.value \o " W)", err |-> ""]
             ELSE [value |-> "", err |-> ""]

UpsModel(name, config, av) ==
    LET r        == Load(ApcValue("MODEL", IgnoreValue), name, config, av)
        nomPower == Load(ApcValue("NOMPOWER", IgnoreValue), name, config, av)
    IN  IF r.err # "" THEN [value |-> "", err |-> r.err]
        ELSE IF r.value = "" THEN [value |-> "", err |-> ""]
        ELSE IF nomPower.value # "" /\ nomPower.err = ""
             THEN [value |-> r.value \o " (" \o nomPower.value \o " W)", err |-> ""]
             ELSE [value |-> r.value, err |-> ""]

\* FormattedValue(format, varLoaders...)
FormattedValue(format, varLoaders) ==
    [kind |-> "FormattedValue", format |-> format, varLoaders |-> varLoaders]

\* the loader of the tests that gives its own name
SucceedingVarLoader == FixedValue("SucceedingVarLoader")

\* fmt.Sprintf(format, values...) for string values from values[i] on and a
\* format whose verbs are %s and %%: each %s takes the next value, a %s
\* without a value and values without a %s are reported in the result
RECURSIVE SprintfFrom(_, _, _)
SprintfFrom(format, values, i) ==
    LET at   == StrIndex(format, "%")
        verb == SubSeq(format, at + 2, at + 2)
        rest == StrFrom(format, at + 2)
        left == IF i > Len(values) THEN ""
                ELSE "%!(EXTRA "
                     \o Concat([j \in 1..(Len(values) - i + 1) |->
                                   (IF j = 1 THEN "" ELSE ", ") \o "string="
                                   \o values[i + j - 1]])
                     \o ")"
    IN  IF at = -1 THEN format \o left
        ELSE IF at + 2 > Len(format) THEN StrTo(format, at) \o "%!(NOVERB)" \o left
        ELSE IF verb = "s"
        THEN StrTo(format, at)
             \o (IF i <= Len(values) THEN values[i] ELSE "%!s(MISSING)")
             \o SprintfFrom(rest, values, i + 1)
        ELSE StrTo(format, at + 1) \o SprintfFrom(rest, values, i)

Sprintf(format, values) == SprintfFrom(format, values, 1)

\* a loop that calls every loader and reports the last failure
RECURSIVE formattedLoopToEnd(_, _, _, _)
formattedLoopToEnd(format, called, i, values) ==
    IF i > Len(called)
    THEN [value |-> Sprintf(format, values), err |-> "", calls |-> <<>>]
    ELSE LET r    == called[i]
             tail == formattedLoopToEnd(format, called, i + 1, Append(values, r.value))
         IN  IF tail.err # ""
             THEN [value |-> "", err |-> tail.err, calls |-> <<i>> \o tail.calls]
             ELSE IF r.err # ""
             THEN [value |-> "", err |-> r.err, calls |-> <<i>> \o tail.calls]
             ELSE [value |-> tail.value, err |-> "", calls |-> <<i>> \o tail.calls]

\* the loop of FormattedValue from loader i on, values holding the results
\* so far and called[i] being what the call of loader i returns: the
\* result of the loop, and in calls the positions of the loaders it has
\* called, in the order of the calls
RECURSIVE formattedLoop(_, _, _, _)
formattedLoop(format, called, i, values) ==
    IF i > Len(called)
    THEN [value |-> Sprintf(format, values), err |-> "", calls |-> <<>>]
    ELSE LET r    == called[i]
             tail == formattedLoop(format, called, i + 1, Append(values, r.value))
         IN  IF r.err # "" THEN [value |-> "", err |-> r.err, calls |-> <<i>>]
             ELSE [value |-> tail.value, err |-> tail.err, calls |-> <<i>> \o tail.calls]

\* the call of a loader made by FormattedValue: its result and the loaders
\* it has called
FormattedValueCall(loader, name, config, av) ==
    formattedLoop(loader.format,
                  [i \in DOMAIN loader.varLoaders |->
                      Load(loader.varLoaders[i], name, config, av)],
                  1, <<>>)

\* a call loader(name, config, av) of a VarLoader
CallLoader(loader, name, config, av) ==
    CASE loader.kind = "UpsStatus"   -> UpsStatus(name, config, av, loader.order)
      [] loader.kind = "UpsSelfTest" -> UpsSelfTest(name, config, av)
      [] loader.kind = "UpsModel"    -> UpsModel(name, config, av)
      [] loader.kind = "FormattedValue" ->
            LET r == FormattedValueCall(loader, name, config, av)
            IN  [value |-> r.value, err |-> r.err]
      [] OTHER                       -> Load(loader, name, config, av)

\* the loaders of its arguments that the call loader(name, config, av) has
\* called, by their positions and in the order of the calls
ChildCalls(loader, name, config, av) ==
    CASE loader.kind = "FormattedValue" ->
            FormattedValueCall(loader, name, config, av).calls
      [] loader.kind = "ApcValue" ->
            IF ~getOk(av, loader.apcKey).found THEN <<1>> ELSE <<>>
      [] OTHER -> <<>>

(***************************************************************************)
(* The command interpreter.  Every command function returns the record     *)
(* (response, closeConnection, err, av, execs): Go's three results (err =  *)
(* "" is nil), the cache as the call leaves it, and the number of times    *)
(* the call ran the external tool.  result is the outcome of that run and  *)
(* order the order in which Go's range visits the keys of config.vars.     *)
(***************************************************************************)
Returns(response, closeConnection, err, av, execs) ==
    [response |-> response, closeConnection |-> closeConnection, err |-> err,
     av |-> av, execs |-> execs]

commandListUps(config, av) ==
    Returns("BEGIN LIST UPS\n"
            \o "UPS " \o config.upsName \o " \"" \o config.upsDescription \o "\"\n"
            \o "END LIST UPS\n", FALSE, "", av, 0)

\* the VAR line of one variable
VarLine(config, name, value) ==
    "VAR " \o config.upsName \o " " \o name \o " \"" \o value \o "\"\n"

\* a listing loop that leaves out the variables whose resolver fails
RECURSIVE listVarLoopSkipsFailed(_, _, _, _, _)
listVarLoopSkipsFailed(order, i, config, av, sb) ==
    IF i > Len(order) THEN [sb |-> sb, err |-> ""]
    ELSE LET name == order[i]
             r    == Load(config.vars[name], name, config, av)
         IN  IF r.err # "" \/ r.value = ""
             THEN listVarLoopSkipsFailed(order, i + 1, config, av, sb)
             ELSE listVarLoopSkipsFailed(order, i + 1, config, av,
                                         sb \o VarLine(config, name, r.value))

\* a listing loop that also writes the variables without a value
RECURSIVE listVarLoopAll(_, _, _, _, _)
listVarLoopAll(order, i, config, av, sb) ==
    IF i > Len(order) THEN [sb |-> sb, err |-> ""]
    ELSE LET name == order[i]
             r    == Load(config.vars[name], name, config, av)
         IN  IF r.err # ""
             THEN [sb |-> "", err |-> "Couldn't load variable " \o name \o ": " \o r.err]
             ELSE listVarLoopAll(order, i + 1, config, av,
                                 sb \o VarLine(config, name, r.value))

\* the loop of commandListVar over config.vars from position i of order on,
\* sb being what the string builder holds
RECURSIVE listVarLoop(_, _, _, _, _)
listVarLoop(order, i, config, av, sb) ==
    IF i > Len(order) THEN [sb |-> sb, err |-> ""]
    ELSE LET name == order[i]
             r    == Load(config.vars[name], name, config, av)
         IN  IF r.err # ""
             THEN [sb |-> "", err |-> "Couldn't load variable " \o name \o ": " \o r.err]
             ELSE IF r.value = "" THEN listVarLoop(order, i + 1, config, av, sb)
             ELSE listVarLoop(order, i + 1, config, av,
                              sb \o VarLine(config, name, r.value))

\* a LIST VAR that refreshes the snapshot before it looks at the UPS name
commandListVarReloadsFirst(command, config, av, result, order, now) ==
    LET upsName == StrFrom(command, 9)
        rl      == reload(av, result, now)
        loop    == listVarLoop(order, 1, config, rl.av,
                               "BEGIN LIST VAR " \o config.upsName \o "\n")
    IN  IF upsName # config.upsName
        THEN Returns("ERR UNKNOWN-UPS", FALSE, "", rl.av, 1)
        ELSE IF rl.err # "" THEN Returns("", FALSE, rl.err, rl.av, 1)
        ELSE IF loop.err # "" THEN Returns("", FALSE, loop.err, rl.av, 1)
        ELSE Returns(loop.sb \o "END LIST VAR " \o config.upsName \o "\n",
                     FALSE, "", rl.av, 1)

commandListVar(command, config, av, result, order, now) ==
    LET upsName == StrFrom(command, 9)
        rl      == reload(av, result, now)
        loop    == listVarLoop(order, 1, config, rl.av,
                               "BEGIN LIST VAR " \o config.upsName \o "\n")
    IN  IF upsName # config.upsName
        THEN Returns("ERR UNKNOWN-UPS", FALSE, "", av, 0)
        ELSE IF rl.err # "" THEN Returns("", FALSE, rl.err, rl.av, 1)
        ELSE IF loop.err # "" THEN Returns("", FALSE, loop.err, rl.av, 1)
        ELSE Returns(loop.sb \o "END LIST VAR " \o config.upsName \o "\n",
                     FALSE, "", rl.av, 1)

\* a GET VAR that answers a failed refresh with an error line
commandGetVarErrFrame(command, config, av, result, now) ==
    LET upsAndVarName == StrSplit(StrFrom(command, 8), " ")
        varName       == upsAndVarName[2]
        rl            == reload(av, result, now)
        r             == Load(config.vars[varName], varName, config, rl.av)
    IN  IF Len(upsAndVarName) # 2
        THEN Returns("ERR INVALID-ARGUMENT", FALSE, "", av, 0)
        ELSE IF upsAndVarName[1] # config.upsName
        THEN Returns("ERR UNKNOWN-UPS", FALSE, "", av, 0)
        ELSE IF rl.err # "" THEN Returns("ERR DATA-STALE", FALSE, rl.err, rl.av, 1)
        ELSE IF varName \notin DOMAIN config.vars
        THEN Returns("ERR VAR-NOT-SUPPORTED", FALSE, "", rl.av, 1)
        ELSE IF r.err # ""
        THEN Returns("", FALSE, "Couldn't load variable " \o varName \o ": " \o r.err,
                     rl.av, 1)
        ELSE Returns(VarLine(config, varName, r.value), FALSE, "", rl.av, 1)

\* a GET VAR that answers from the stored snapshot when it was refreshed at
\* the current time
commandGetVarCached(command, config, av, result, now) ==
    LET upsAndVarName == StrSplit(StrFrom(command, 8), " ")
        varName       == upsAndVarName[2]
        fresh         == av.refreshTime = now
        rl            == IF fresh THEN [av |-> av, err |-> ""] ELSE reload(av, result, now)
        n             == IF fresh THEN 0 ELSE 1
        r             == Load(config.vars[varName], varName, config, rl.av)
    IN  IF Len(upsAndVarName) # 2
        THEN Returns("ERR INVALID-ARGUMENT", FALSE, "", av, 0)
        ELSE IF upsAndVarName[1] # config.upsName
        THEN Returns("ERR UNKNOWN-UPS", FALSE, "", av, 0)
        ELSE IF rl.err # "" THEN Returns("", FALSE, rl.err, rl.av, n)
        ELSE IF varName \notin DOMAIN config.vars
        THEN Returns("ERR VAR-NOT-SUPPORTED", FALSE, "", rl.av, n)
        ELSE IF r.err # ""
        THEN Returns("", FALSE, "Couldn't load variable " \o varName \o ": " \o r.err,
                     rl.av, n)
        ELSE Returns(VarLine(config, varName, r.value), FALSE, "", rl.av, n)

\* a GET VAR that answers from the previous snapshot when the tool fails
commandGetVarServesStale(command, config, av, result, now) ==
    LET upsAndVarName == StrSplit(StrFrom(command, 8), " ")
        varName       == upsAndVarName[2]
        rl            == reload(av, result, now)
        stale         == rl.err = "Error invoking apcaccess" /\ av.refreshTime > 0
        r             == Load(config.vars[varName], varName, config, rl.av)
    IN  IF Len(upsAndVarName) # 2
        THEN Returns("ERR INVALID-ARGUMENT", FALSE, "", av, 0)
        ELSE IF upsAndVarName[1] # config.upsName
        THEN Returns("ERR UNKNOWN-UPS", FALSE, "", av, 0)
        ELSE IF rl.err # "" /\ ~stale THEN Returns("", FALSE, rl.err, rl.av, 1)
        ELSE IF varName \notin DOMAIN config.vars
        THEN Returns("ERR VAR-NOT-SUPPORTED", FALSE, "", rl.av, 1)
        ELSE IF r.err # ""
        THEN Returns("", FALSE, "Couldn't load variable " \o varName \o ": " \o r.err,
                     rl.av, 1)
        ELSE Returns(VarLine(config, varName, r.value), FALSE, "", rl.av, 1)

\* a GET VAR that treats a variable without a value as LIST VAR does
commandGetVarSkipsEmpty(command, config, av, result, now) ==
    LET upsAndVarName == StrSplit(StrFrom(command, 8), " ")
        varName       == upsAndVarName[2]
        rl            == reload(av, result, now)
        r             == Load(config.vars[varName], varName, config, rl.av)
    IN  IF Len(upsAndVarName) # 2
        THEN Returns("ERR INVALID-ARGUMENT", FALSE, "", av, 0)
        ELSE IF upsAndVarName[1] # config.upsName
        THEN Returns("ERR UNKNOWN-UPS", FALSE, "", av, 0)
        ELSE IF rl.err # "" THEN Returns("", FALSE, rl.err, rl.av, 1)
        ELSE IF varName \notin DOMAIN config.vars
        THEN Returns("ERR VAR-NOT-SUPPORTED", FALSE, "", rl.av, 1)
        ELSE IF r.err # ""
        THEN Returns("", FALSE, "Couldn't load variable " \o varName \o ": " \o r.err,
                     rl.av, 1)
        ELSE IF r.value = "" THEN Returns("ERR VAR-NOT-SUPPORTED", FALSE, "", rl.av, 1)
        ELSE Returns(VarLine(config, varName, r.value), FALSE, "", rl.av, 1)

commandGetVar(command, config, av, result, now) ==
    LET upsAndVarName == StrSplit(StrFrom(command, 8), " ")
        varName       == upsAndVarName[2]
        rl            == reload(av, result, now)
        r             == Load(config.vars[varName], varName, config, rl.av)
    IN  IF Len(upsAndVarName) # 2
        THEN Returns("ERR INVALID-ARGUMENT", FALSE, "", av, 0)
        ELSE IF upsAndVarName[1] # config.upsName
        THEN Returns("ERR UNKNOWN-UPS", FALSE, "", av, 0)
        ELSE IF rl.err # "" THEN Returns("", FALSE, rl.err, rl.av, 1)
        ELSE IF varName \notin DOMAIN config.vars
        THEN Returns("ERR VAR-NOT-SUPPORTED", FALSE, "", rl.av, 1)
        ELSE IF r.err # ""
        THEN Returns("", FALSE, "Couldn't load variable " \o varName \o ": " \o r.err,
                     rl.av, 1)
        ELSE Returns(VarLine(config, varName, r.value), FALSE, "", rl.av, 1)

\* a SET VAR that does not look at the UPS name
commandSetVarAnyUps(command, config, av) ==
    LET upsAndVarName == StrSplit(StrFrom(command, 8), " ")
    IN  IF Len(upsAndVarName) # 2
        THEN Returns("ERR INVALID-ARGUMENT", FALSE, "", av, 0)
        ELSE Returns("ERR READONLY", FALSE, "", av, 0)

\* a SET VAR that answers READONLY for the variables of the registry only
commandSetVarKnownOnly(command, config, av) ==
    LET upsAndVarName == StrSplit(StrFrom(command, 8), " ")
    IN  IF Len(upsAndVarName) # 2
        THEN Returns("ERR INVALID-ARGUMENT", FALSE, "", av, 0)
        ELSE IF upsAndVarName[1] # config.upsName
        THEN Returns("ERR UNKNOWN-UPS", FALSE, "", av, 0)
        ELSE IF upsAndVarName[2] \notin DOMAIN config.vars
        THEN Returns("ERR VAR-NOT-SUPPORTED", FALSE, "", av, 0)
        ELSE Returns("ERR READONLY", FALSE, "", av, 0)

\* a SET VAR that records the variable in the snapshot
commandSetVarStores(command, config, av) ==
    LET upsAndVarName == StrSplit(StrFrom(command, 8), " ")
    IN  IF Len(upsAndVarName) # 2
        THEN Returns("ERR INVALID-ARGUMENT", FALSE, "", av, 0)
        ELSE IF upsAndVarName[1] # config.upsName
        THEN Returns("ERR UNKNOWN-UPS", FALSE, "", av, 0)
        ELSE Returns("ERR READONLY", FALSE, "",
                     [av EXCEPT !.values = MapPut(@, "SERIALNO", upsAndVarName[2])], 0)

commandSetVar(command, config, av) ==
    LET upsAndVarName == StrSplit(StrFrom(command, 8), " ")
    IN  IF Len(upsAndVarName) # 2
        THEN Returns("ERR INVALID-ARGUMENT", FALSE, "", av, 0)
        ELSE IF upsAndVarName[1] # config.upsName
        THEN Returns("ERR UNKNOWN-UPS", FALSE, "", av, 0)
        ELSE Returns("ERR READONLY", FALSE, "", av, 0)

\* a LOGIN that reports an unknown UPS as a failure of the command
commandLoginFails(command, config, av) ==
    IF StrFrom(command, 6) # config.upsName
    THEN Returns("", FALSE, "unknown UPS " \o StrFrom(command, 6), av, 0)
    ELSE Returns("OK", FALSE, "", av, 0)

\* a LOGIN that hangs up on an unknown UPS
commandLoginStrict(command, config, av) ==
    IF StrFrom(command, 6) # config.upsName
    THEN Returns("ERR UNKNOWN-UPS", TRUE, "", av, 0)
    ELSE Returns("OK", FALSE, "", av, 0)

commandLogin(command, config, av) ==
    IF StrFrom(command, 6) # config.upsName
    THEN Returns("ERR UNKNOWN-UPS", FALSE, "", av, 0)
    ELSE Returns("OK", FALSE, "", av, 0)

\* a LOGOUT that says goodbye and leaves the connection open
commandLogoutStays(av) == Returns("OK Goodbye", FALSE, "", av, 0)

commandLogout(av) == Returns("OK Goodbye", TRUE, "", av, 0)

commandReceived(command, config, av, result, order, now) ==
    IF HasPrefix(command, "LOGIN ") THEN commandLogin(command, config, av)
    ELSE IF HasPrefix(command, "USERNAME ") THEN Returns("OK", FALSE, "", av, 0)
    ELSE IF HasPrefix(command, "PASSWORD ") THEN Returns("OK", FALSE, "", av, 0)
    ELSE IF command = "LOGOUT" THEN commandLogout(av)
    ELSE IF command = "STARTTLS"
    THEN Returns("ERR FEATURE-NOT-CONFIGURED", FALSE, "", av, 0)
    ELSE IF command = "LIST UPS" THEN commandListUps(config, av)
    ELSE IF HasPrefix(command, "LIST VAR ")
    THEN commandListVar(command, config, av, result, order, now)
    ELSE IF HasPrefix(command, "GET VAR ")
    THEN commandGetVar(command, config, av, result, now)
    ELSE IF HasPrefix(command, "SET VAR ") THEN commandSetVar(command, config, av)
    ELSE Returns("ERR UNKNOWN-COMMAND", FALSE, "", av, 0)

(***************************************************************************)
(* Configurations, request lines and tool outcomes of the model.           *)
(***************************************************************************)
\* entries of startProxy's catalog: a fixed value, a raw telemetry value and
\* a converted one (the only kind of loader of the catalog that can fail)
Registry ==
    [n \in {"device.type", "device.serial", "battery.runtime"} |->
        CASE n = "device.type"     -> FixedValue("ups")
          [] n = "device.serial"   -> ApcValue("SERIALNO", IgnoreValue)
          [] n = "battery.runtime" -> UpsBatteryRuntime]

\* the default UPS identity of loadProgramArgs, and another one
Configs ==
    {[upsName |-> "ups", upsDescription |-> "apcupsd NUT proxy", vars |-> Registry],
     [upsName |-> "test", upsDescription |-> "testcase", vars |-> Registry]}

Keywords ==
    {"LOGIN", "USERNAME", "PASSWORD", "LOGOUT", "STARTTLS", "LIST UPS", "LIST VAR",
     "GET VAR", "SET VAR", "HELP", ""}

Pieces == {" ups", " test", " device.type", " battery.runtime", " missing", " ", "x"}

\* every request line of the model: a keyword, up to MaxPieces pieces, and
\* the line end
Lines ==
    {kw \o Concat(t) \o "\n" : kw \in Keywords, t \in SeqsUpTo(Pieces, MaxPieces)}

\* the lines the client of a single session sends
SessionLines(cfg) ==
    {"LOGIN " \o cfg.upsName \o "\n", "USERNAME admin\n", "PASSWORD secret\n",
     "LOGOUT\r\n", "LIST UPS\n", "HELP\n",
     "LIST VAR " \o cfg.upsName \o "\n",
     "GET VAR " \o cfg.upsName \o " battery.runtime\n",
     "GET VAR " \o cfg.upsName \o " device.serial\n",
     "GET VAR " \o cfg.upsName \o " missing\n",
     "GET VAR other device.type\n",
     "SET VAR " \o cfg.upsName \o " device.type\n"}

\* the lines clients send when several sessions run side by side
ConcLines(cfg) ==
    {"LOGOUT\n", "HELP\n", "LIST VAR " \o cfg.upsName \o "\n",
     "GET VAR " \o cfg.upsName \o " battery.runtime\n"}

OutLines == {"TIMELEFT : 1.5", "TIMELEFT: abc", " SERIALNO : 42 ", "no separator", "  "}

\* the run of the tool failed
ExecFailed == [err |-> TRUE, out |-> ""]

\* the tool printed the lines of t
ExecOutput(t) == [err |-> FALSE, out |-> Concat([i \in DOMAIN t |-> t[i] \o "\n"])]

\* what a run of the tool may give: a failure, or an output of up to
\* MaxOutLines lines
ExecResults ==
    {ExecFailed} \cup {ExecOutput(t) : t \in SeqsUpTo(OutLines, MaxOutLines)}

\* the outcomes of the tool when several sessions run side by side
ConcResults ==
    {ExecFailed, ExecOutput(<<"TIMELEFT : 1.5">>), ExecOutput(<<"TIMELEFT: abc">>),
     ExecOutput(<<" SERIALNO : 42 ", "no separator">>)}

\* lines of the tool's output for direct calls of reload and of the loaders
UnitOutLines ==
    {" STATUS : ONLINE", " UPSNAME : name", "STATUS: ONBATT LOWBATT", "STATUS:COMMLOST",
     "STATUS : UNKNOWN", "STATUS :", "BCHARGE : 99.9", "BCHARGE : 100.0", "BCHARGE: abc",
     "BCHARGE :", "TIMELEFT : 1", "TIMELEFT : 10", "TIMELEFT : 1.5", "TIMELEFT : 4.35",
     "TIMELEFT : 1.3", "TIMELEFT : x", "TIMELEFT :", "TIME : 10:00", "  ", "no separator",
     "SELFTEST : OK", "SELFTEST : NO", "SELFTEST : NG NO BT", "SELFTEST : NO NG",
     "SELFTEST : NOT OK", "SELFTEST : IP", "SELFTEST :",
     "MODEL : Back-UPS ES 700G", "MODEL :", "NOMPOWER : 405", "NOMPOWER :"}

UnitResults ==
    {ExecFailed} \cup {ExecOutput(t) : t \in SeqsUpTo(UnitOutLines, MaxOutLines)}

\* the loaders called directly, UpsStatus visiting its map in this order
UnitLoaders(order) ==
    {UpsStatusVisiting(order), UpsSelfTestLoader, UpsModelLoader, UpsBatteryRuntime,
     ApcValue("TIMELEFT", NumberVarLoader), ApcValue("TIMELEFT", FailingVarLoader),
     FormattedValue("format %s", <<SucceedingVarLoader>>),
     FormattedValue("%s: %s s (%s)",
                    <<ApcValue("UPSNAME", FailingVarLoader), UpsBatteryRuntime,
                      ApcValue("STATUS", IgnoreValue)>>),
     ApcValueMinInSec("TIMELEFT", NumberVarLoader),
     ApcValueMinInSec("TIMELEFT", FailingVarLoader)}

\* the orders in which a range over the keys of m may visit them
Orders(m) ==
    {o \in [1..Cardinality(DOMAIN m) -> DOMAIN m] :
        \A i, j \in DOMAIN o : i # j => o[i] # o[j]}

(***************************************************************************)
(* The state.                                                              *)
(***************************************************************************)
Conns == 1..MaxConns

VARIABLES
    config,             \* the Config of startProxy, shared by every handler
    now,                \* the clock time.Now reads
    listening,          \* startProxy is in its accept loop
    failedInARowCount,  \* startProxy's counter of failed accepts
    pc,                 \* where each connection's handler is
    closedBy,           \* the return of handleConnection that ended it
    command,            \* the loop body's command,
    response,           \* response,
    closeConnection,    \* closeConnection
    err,                \* and err of commandReceived
    apcValues,          \* the ApcValues each handler created
    execCount,          \* runs of the external tool started by each handler
    nread,              \* lines each handler has read
    frames,             \* responses each handler has flushed to its client
    wire,               \* the last text each handler flushed
    errLog,             \* "Handling command ... failed" lines each has logged
    lastRun,            \* the tool's run in the loop body's commandReceived
    loaded              \* the last direct call of a variable loader

vars ==
    <<config, now, listening, failedInARowCount, pc, closedBy, command, response,
      closeConnection, err, apcValues, execCount, nread, frames, wire, errLog,
      lastRun, loaded>>

connVars ==
    <<pc, closedBy, command, response, closeConnection, err, apcValues, execCount,
      nread, frames, wire, errLog, lastRun>>

\* no run of the tool
NoRun == [ran |-> FALSE, err |-> FALSE, out |-> ""]

\* a run of the tool with this outcome
Ran(result) == [ran |-> TRUE, err |-> result.err, out |-> result.out]

\* no loader was called
NoLoad ==
    [called |-> FALSE, loader |-> IgnoreValue, value |-> "", err |-> "", calls |-> <<>>]

\* one ApcValues for every connection
SharedCache(c) == 1

\* the ApcValues of connection c: handleConnection creates its own
CacheOf(c) == c

Init ==
    /\ config \in Configs
    /\ now = 1
    /\ listening = TRUE
    /\ failedInARowCount = 0
    /\ pc = [c \in Conns |-> "none"]
    /\ closedBy = [c \in Conns |-> ""]
    /\ command = [c \in Conns |-> ""]
    /\ response = [c \in Conns |-> ""]
    /\ closeConnection = [c \in Conns |-> FALSE]
    /\ err = [c \in Conns |-> ""]
    /\ apcValues = [c \in Conns |-> NewApcValues]
    /\ execCount = [c \in Conns |-> 0]
    /\ nread = [c \in Conns |-> 0]
    /\ frames = [c \in Conns |-> 0]
    /\ wire = [c \in Conns |-> ""]
    /\ errLog = [c \in Conns |-> 0]
    /\ lastRun = [c \in Conns |-> NoRun]
    /\ loaded = NoLoad

(***************************************************************************)
(* startProxy's accept loop.                                               *)
(***************************************************************************)
\* an accept loop that does not reset its counter
AcceptNoReset(c) ==
    /\ listening
    /\ pc[c] = "none"
    /\ \A d \in Conns : d < c => pc[d] # "none"
    /\ failedInARowCount' = failedInARowCount
    /\ pc' = [pc EXCEPT ![c] = "read"]
    /\ apcValues' = [apcValues EXCEPT ![CacheOf(c)] = NewApcValues]
    /\ UNCHANGED <<config, loaded, now, listening, closedBy, command, response,
                   closeConnection, err, execCount, nread, frames, wire, errLog,
                   lastRun>>

\* l.Accept succeeds: the counter is reset and a handler starts, which
\* creates its ApcValues before its loop
Accept(c) ==
    /\ listening
    /\ pc[c] = "none"
    /\ \A d \in Conns : d < c => pc[d] # "none"
    /\ failedInARowCount' = 0
    /\ pc' = [pc EXCEPT ![c] = "read"]
    /\ apcValues' = [apcValues EXCEPT ![CacheOf(c)] = NewApcValues]
    /\ UNCHANGED <<config, loaded, now, listening, closedBy, command, response,
                   closeConnection, err, execCount, nread, frames, wire, errLog,
                   lastRun>>

\* l.Accept fails: the third failure in a row ends startProxy
AcceptFails ==
    /\ listening
    /\ failedInARowCount' = failedInARowCount + 1
    /\ listening' = (failedInARowCount + 1 < 3)
    /\ UNCHANGED <<config, loaded, now, connVars>>

Tick ==
    /\ now < MaxTime
    /\ now' = now + 1
    /\ UNCHANGED <<config, loaded, listening, failedInARowCount, connVars>>

(***************************************************************************)
(* handleConnection, one action per blocking point of its loop.  The       *)
(* variables of the loop body exist from the read of a line to the end of  *)
(* that iteration.                                                         *)
(***************************************************************************)
\* the iteration of c ends: its variables are gone
EndIteration(c) ==
    /\ command' = [command EXCEPT ![c] = ""]
    /\ response' = [response EXCEPT ![c] = ""]
    /\ closeConnection' = [closeConnection EXCEPT ![c] = FALSE]
    /\ err' = [err EXCEPT ![c] = ""]
    /\ lastRun' = [lastRun EXCEPT ![c] = NoRun]

\* a handler that logs the failure and goes on with its loop
ReturnMissing(c, why) ==
    /\ pc' = [pc EXCEPT ![c] = "read"]
    /\ closedBy' = [closedBy EXCEPT ![c] = why]
    /\ EndIteration(c)

\* the handler returns: the deferred c.Close runs
Return(c, why) ==
    /\ pc' = [pc EXCEPT ![c] = "closed"]
    /\ closedBy' = [closedBy EXCEPT ![c] = why]
    /\ EndIteration(c)

\* a handler that takes the next line while a response is still to be written
ReadCommandAhead(c, L, n) ==
    /\ listening
    /\ pc[c] \in {"read", "respond"}
    /\ \/ /\ Return(c, "deadline")
          /\ UNCHANGED nread
       \/ /\ Return(c, "read")
          /\ UNCHANGED nread
       \/ /\ nread[c] < n
          /\ \E line \in L :
                command' = [command EXCEPT ![c] = TrimSpace(line)]
          /\ nread' = [nread EXCEPT ![c] = @ + 1]
          /\ pc' = [pc EXCEPT ![c] = "dispatch"]
          /\ UNCHANGED <<closedBy, response, closeConnection, err, lastRun>>
    /\ UNCHANGED <<config, loaded, now, listening, failedInARowCount, apcValues, execCount,
                   frames, wire, errLog>>

\* c.SetDeadline and reader.ReadString: one of the two fails, or the client
\* has sent a line of L (at most n of them), which is trimmed
ReadCommand(c, L, n) ==
    /\ listening
    /\ pc[c] = "read"
    /\ \/ /\ Return(c, "deadline")
          /\ UNCHANGED nread
       \/ /\ Return(c, "read")
          /\ UNCHANGED nread
       \/ /\ nread[c] < n
          /\ \E line \in L :
                command' = [command EXCEPT ![c] = TrimSpace(line)]
          /\ nread' = [nread EXCEPT ![c] = @ + 1]
          /\ pc' = [pc EXCEPT ![c] = "dispatch"]
          /\ UNCHANGED <<closedBy, response, closeConnection, err, lastRun>>
    /\ UNCHANGED <<config, loaded, now, listening, failedInARowCount, apcValues, execCount,
                   frames, wire, errLog>>

\* whether commandReceived runs the external tool for this command: it does
\* so before it reads the outcome
callsExec(cmd, cfg, av, t) ==
    commandReceived(cmd, cfg, av, ExecFailed, <<>>, t).execs > 0

\* commandReceived has returned r after the run of the tool (if any): its
\* results are in the handler's variables, and an error is logged
Returned(c, r, run) ==
    /\ lastRun' = [lastRun EXCEPT ![c] = run]
    /\ response' = [response EXCEPT ![c] = r.response]
    /\ closeConnection' = [closeConnection EXCEPT ![c] = r.closeConnection]
    /\ err' = [err EXCEPT ![c] = r.err]
    /\ apcValues' = [apcValues EXCEPT ![CacheOf(c)] = r.av]
    /\ errLog' = [errLog EXCEPT ![c] = IF r.err # "" THEN @ + 1 ELSE @]
    /\ pc' = [pc EXCEPT ![c] = "respond"]

\* handlers that take turns: no command is dispatched while the tool runs
\* for another connection
DispatchInTurn(c) ==
    /\ listening
    /\ pc[c] = "dispatch"
    /\ \A d \in Conns \ {c} : pc[d] # "exec"
    /\ IF callsExec(command[c], config, apcValues[CacheOf(c)], now)
       THEN /\ pc' = [pc EXCEPT ![c] = "exec"]
            /\ execCount' = [execCount EXCEPT ![c] = @ + 1]
            /\ UNCHANGED <<response, closeConnection, err, apcValues, errLog,
                           lastRun>>
       ELSE /\ Returned(c, commandReceived(command[c], config, apcValues[CacheOf(c)],
                                           ExecFailed, <<>>, now), NoRun)
            /\ UNCHANGED execCount
    /\ UNCHANGED <<config, loaded, now, listening, failedInARowCount, closedBy, command,
                   nread, frames, wire>>

\* commandReceived up to its return or, for a command that reloads, up to
\* the start of the external tool
Dispatch(c) ==
    /\ listening
    /\ pc[c] = "dispatch"
    /\ IF callsExec(command[c], config, apcValues[CacheOf(c)], now)
       THEN /\ pc' = [pc EXCEPT ![c] = "exec"]
            /\ execCount' = [execCount EXCEPT ![c] = @ + 1]
            /\ UNCHANGED <<response, closeConnection, err, apcValues, errLog,
                           lastRun>>
       ELSE /\ Returned(c, commandReceived(command[c], config, apcValues[CacheOf(c)],
                                           ExecFailed, <<>>, now), NoRun)
            /\ UNCHANGED execCount
    /\ UNCHANGED <<config, loaded, now, listening, failedInARowCount, closedBy, command,
                   nread, frames, wire>>

\* the external tool returns with an outcome of R and commandReceived runs
\* to its end
ExecReturns(c, R) ==
    /\ listening
    /\ pc[c] = "exec"
    /\ \E result \in R, order \in Orders(config.vars) :
          Returned(c, commandReceived(command[c], config, apcValues[CacheOf(c)],
                                      result, order, now), Ran(result))
    /\ UNCHANGED <<config, loaded, now, listening, failedInARowCount, closedBy, command,
                   execCount, nread, frames, wire>>

\* a newline appended to the response as it is
FramedAsIs(resp) == resp \o "\n"

\* what the handler writes for a non-empty response: "ensure response ends
\* with a newline"
Framed(resp) == TrimSpace(resp) \o "\n"

\* writer.WriteString, writer.Flush and the check of closeConnection.  Only
\* a non-empty response is written, and a flush of an empty buffer does
\* nothing, so neither can fail after an empty response
Respond(c) ==
    /\ listening
    /\ pc[c] = "respond"
    /\ \/ /\ response[c] # ""
          /\ Return(c, "write")
          /\ UNCHANGED <<frames, wire>>
       \/ /\ response[c] # ""
          /\ Return(c, "flush")
          /\ UNCHANGED <<frames, wire>>
       \/ /\ IF response[c] # ""
             THEN /\ frames' = [frames EXCEPT ![c] = @ + 1]
                  /\ wire' = [wire EXCEPT ![c] = Framed(response[c])]
             ELSE UNCHANGED <<frames, wire>>
          /\ IF closeConnection[c]
             THEN Return(c, "logout")
             ELSE /\ pc' = [pc EXCEPT ![c] = "read"]
                  /\ EndIteration(c)
                  /\ UNCHANGED closedBy
    /\ UNCHANGED <<config, loaded, now, listening, failedInARowCount, apcValues, execCount,
                   nread, errLog>>

Serve(c, L, R, n) ==
    \/ ReadCommand(c, L, n)
    \/ Dispatch(c)
    \/ ExecReturns(c, R)
    \/ Respond(c)

\* the proxy: the listener and every connection it accepted
Next ==
    \/ \E c \in Conns : Accept(c)
    \/ AcceptFails
    \/ Tick
    \/ \E c \in Conns : Serve(c, ConcLines(config), ConcResults, MaxConcCmds)

Spec == Init /\ [][Next]_vars

\* one session of several commands
NextSession ==
    \/ Accept(1)
    \/ Tick
    \/ Serve(1, SessionLines(config), ExecResults, MaxCmds)

SpecSession == Init /\ [][NextSession]_vars

\* one session whose client sends one line, any line
NextCommand ==
    \/ Accept(1)
    \/ Tick
    \/ Serve(1, Lines, ExecResults, 1)

SpecCommand == Init /\ [][NextCommand]_vars

(***************************************************************************)
(* reload and the variable loaders called directly, the way the tests of   *)
(* the repository call them: on an ApcValues no handler owns.              *)
(***************************************************************************)
\* ar.reload(config, exec) on a new ApcValues, with an exec that gives an
\* outcome of R
ReloadCall(R) ==
    /\ pc[1] = "none"
    /\ ~lastRun[1].ran
    /\ ~loaded.called
    /\ \E result \in R :
          LET rl == reload(apcValues[CacheOf(1)], result, now)
          IN  /\ apcValues' = [apcValues EXCEPT ![CacheOf(1)] = rl.av]
              /\ lastRun' = [lastRun EXCEPT ![1] = Ran(result)]
              /\ err' = [err EXCEPT ![1] = rl.err]
    /\ UNCHANGED <<config, loaded, now, listening, failedInARowCount, pc, closedBy,
                   command, response, closeConnection, execCount, nread, frames, wire,
                   errLog>>

\* loader("name", config, av) on that ApcValues
LoadCall ==
    /\ pc[1] = "none"
    /\ ~loaded.called
    /\ \E loader \in UNION {UnitLoaders(order) : order \in StatusOrders} :
          LET r == CallLoader(loader, "name", config, apcValues[CacheOf(1)])
          IN  loaded' = [called |-> TRUE, loader |-> loader, value |-> r.value,
                         err |-> r.err,
                         calls |-> ChildCalls(loader, "name", config,
                                              apcValues[CacheOf(1)])]
    /\ UNCHANGED <<config, now, listening, failedInARowCount, connVars>>

NextUnit ==
    \/ ReloadCall(UnitResults)
    \/ LoadCall

SpecUnit == Init /\ [][NextUnit]_vars

(***************************************************************************)
(* The vocabulary of the properties.                                       *)
(***************************************************************************)
\* the lines of a tool output that are not blank
DataLines(out) ==
    LET ls == ScanLines(out) IN {i \in DOMAIN ls : TrimSpace(ls[i]) # ""}

\* the output holds a non-blank line without a separator
Malformed(out) ==
    \E i \in DataLines(out) : StrIndex(ScanLines(out)[i], ":") = -1

\* the key a well-formed line gives
KeyOfLine(line) == TrimSpace(StrTo(line, StrIndex(line, ":")))

\* the keys a well-formed output gives
KeysOf(out) == {KeyOfLine(ScanLines(out)[i]) : i \in DataLines(out)}

\* connection c has just come back from commandReceived
Answered(c) == pc[c] = "respond"

\* the commands that name a UPS
UpsKeywords == {"LOGIN ", "LIST VAR ", "GET VAR ", "SET VAR "}

NamesUps(cmd) == \E kw \in UpsKeywords : HasPrefix(cmd, kw)

\* the space-separated tokens after the keyword of such a command
Tokens(cmd) ==
    LET kw == CHOOSE k \in UpsKeywords : HasPrefix(cmd, k)
    IN  StrSplit(StrFrom(cmd, Len(kw)), " ")

\* the command addresses a UPS that is not the configured one
AddressesOtherUps(cmd, cfg) == NamesUps(cmd) /\ Tokens(cmd)[1] # cfg.upsName

TransportFailures == {"deadline", "read", "write", "flush"}

(***************************************************************************)
(* C1 (as claimed): when the tool output holds a non-blank line without a  *)
(* ':', reload returns an error and the stored snapshot, mapping and       *)
(* timestamp, is exactly what it was before that reload.                   *)
(***************************************************************************)
C1_ParseFailureKeepsSnapshot ==
    [][\A c \in Conns :
          (pc[c] = "exec" /\ lastRun'[c].ran /\ ~lastRun'[c].err
             /\ Malformed(lastRun'[c].out))
          => (err'[c] # "" /\ apcValues'[c] = apcValues[c])]_vars

(***************************************************************************)
(* C2 (as claimed): every LOGIN, LIST VAR, GET VAR or SET VAR command that *)
(* addresses a UPS name other than the configured one, whatever its        *)
(* arguments, is answered "ERR UNKNOWN-UPS", connection kept, no error.    *)
(***************************************************************************)
C2_OtherUpsAnyArguments ==
    \A c \in Conns :
        (Answered(c) /\ AddressesOtherUps(command[c], config))
        => (response[c] = "ERR UNKNOWN-UPS" /\ ~closeConnection[c] /\ err[c] = "")

\* GET VAR and SET VAR count their tokens before they look at the UPS name
TwoTokensIfVar(cmd) ==
    (HasPrefix(cmd, "GET VAR ") \/ HasPrefix(cmd, "SET VAR ")) => Len(Tokens(cmd)) = 2

(***************************************************************************)
(* C2 (amended): every LOGIN or LIST VAR command, and every GET VAR or SET *)
(* VAR command with exactly two space-separated tokens after the keyword,  *)
(* that addresses a UPS name other than the configured one is answered     *)
(* "ERR UNKNOWN-UPS", connection kept, no error.                           *)
(***************************************************************************)
C2_OtherUpsUnknown ==
    \A c \in Conns :
        (Answered(c) /\ AddressesOtherUps(command[c], config) /\ TwoTokensIfVar(command[c]))
        => (response[c] = "ERR UNKNOWN-UPS" /\ ~closeConnection[c] /\ err[c] = "")

C2_Witness ==
    \E c \in Conns :
        /\ Answered(c)
        /\ HasPrefix(command[c], "SET VAR ")
        /\ AddressesOtherUps(command[c], config)
        /\ Len(Tokens(command[c])) = 2
        /\ Tokens(command[c])[1] # ""
        /\ response[c] = "ERR UNKNOWN-UPS"

(***************************************************************************)
(* C3 (as claimed): SET VAR <configured-ups> <var> <value>, with a         *)
(* variable of the registry and a new value, is answered "ERR READONLY".   *)
(***************************************************************************)
C3_SetVarWithValueReadonly ==
    \A c \in Conns :
        (/\ Answered(c)
         /\ HasPrefix(command[c], "SET VAR ")
         /\ Len(Tokens(command[c])) = 3
         /\ Tokens(command[c])[1] = config.upsName
         /\ Tokens(command[c])[2] \in DOMAIN config.vars
         /\ Tokens(command[c])[3] # "")
        => response[c] = "ERR READONLY"

(***************************************************************************)
(* C4 (as claimed): GET VAR for the configured UPS and a variable that is  *)
(* not in the registry is answered "ERR VAR-NOT-SUPPORTED", no error,      *)
(* connection kept, whatever the outcome of the refresh.                   *)
(***************************************************************************)
C4_MissingVarNotSupported ==
    \A c \in Conns :
        (/\ Answered(c)
         /\ HasPrefix(command[c], "GET VAR ")
         /\ Len(Tokens(command[c])) = 2
         /\ Tokens(command[c])[1] = config.upsName
         /\ Tokens(command[c])[2] \notin DOMAIN config.vars)
        => (response[c] = "ERR VAR-NOT-SUPPORTED" /\ err[c] = "" /\ ~closeConnection[c])

\* the errors reload returns
ReloadErrors == {"Error invoking apcaccess", "Invalid line in apcaccess output"}

\* the values the lines of a well-formed output give for key k
ValuesOf(out, k) ==
    LET ls == ScanLines(out)
    IN  {TrimSpace(StrFrom(ls[i], StrIndex(ls[i], ":") + 1)) :
            i \in {j \in DataLines(out) : KeyOfLine(ls[j]) = k}}

(***************************************************************************)
(* C5: after a successful reload the snapshot holds exactly the key/value  *)
(* pairs of the new tool output: a key of the previous snapshot that the   *)
(* new output lacks is not found any more (replacement, never a merge).    *)
(***************************************************************************)
C5_ReloadReplaces ==
    [][\A c \in Conns :
          (pc[c] = "exec" /\ pc'[c] = "respond" /\ err'[c] \notin ReloadErrors)
          => LET out == lastRun'[c].out
             IN  /\ DOMAIN apcValues'[c].values = KeysOf(out)
                 /\ \A k \in KeysOf(out) :
                       /\ getOk(apcValues'[c], k).found
                       /\ getOk(apcValues'[c], k).val \in ValuesOf(out, k)
                 /\ \A k \in (DOMAIN apcValues[c].values) \ KeysOf(out) :
                       ~getOk(apcValues'[c], k).found]_vars

\* the serial number of the previous snapshot was sent to the client, and
\* the snapshot of the second refresh has other keys and no serial number
C5_Witness ==
    \E c \in Conns :
        /\ Answered(c)
        /\ execCount[c] = 2
        /\ lastRun[c].ran
        /\ err[c] = ""
        /\ wire[c] = VarLine(config, "device.serial", "42")
        /\ apcValues[c].values # EmptyMap
        /\ ~getOk(apcValues[c], "SERIALNO").found

(***************************************************************************)
(* C6: commandReceived returns shouldClose = TRUE for LOGOUT only, with    *)
(* the response "OK Goodbye"; a connection leaves the open state only by   *)
(* a transport failure or by the LOGOUT whose response it has flushed.     *)
(***************************************************************************)
C6_OnlyLogoutCloses ==
    [][\A c \in Conns :
          /\ pc'[c] = "respond"
             => /\ closeConnection'[c] <=> (command'[c] = "LOGOUT")
                /\ closeConnection'[c] => response'[c] = "OK Goodbye"
          /\ (pc[c] # "closed" /\ pc'[c] = "closed")
             => \/ closedBy'[c] \in TransportFailures
                \/ /\ closedBy'[c] = "logout"
                   /\ command[c] = "LOGOUT"
                   /\ wire'[c] = "OK Goodbye\n"]_vars

C6_Witness ==
    \E c \in Conns :
        pc[c] = "closed" /\ closedBy[c] = "logout" /\ wire[c] = "OK Goodbye\n"

(***************************************************************************)
(* C7: when commandReceived returns an error, the session loop writes      *)
(* nothing for that command, keeps the connection open and goes back to    *)
(* reading the next command.                                               *)
(***************************************************************************)
C7_DispatchErrorIsSilent ==
    [][\A c \in Conns :
          (pc[c] = "respond" /\ err[c] # "")
          => /\ frames'[c] = frames[c]
             /\ wire'[c] = wire[c]
             /\ pc'[c] \in {"respond", "read"}]_vars

\* one command of the session ended in an error, and the session went on
\* to the LOGOUT it answered
C7_Witness ==
    \E c \in Conns :
        /\ errLog[c] = 1
        /\ frames[c] = 1
        /\ closedBy[c] = "logout"
        /\ wire[c] = "OK Goodbye\n"

\* everything of connection c but the reason of its end
ConnState(c) ==
    <<pc[c], command[c], response[c], closeConnection[c], err[c],
      apcValues[CacheOf(c)], execCount[c], nread[c], frames[c], wire[c], errLog[c],
      lastRun[c]>>

(***************************************************************************)
(* C8: a failure of the deadline, of the read, of the write or of the      *)
(* flush ends the handler at once: it reads, dispatches and writes nothing *)
(* more, the failing step itself writes nothing, and neither the accept    *)
(* loop nor any other connection is touched.                               *)
(***************************************************************************)
C8_TransportFailureEndsHandler ==
    [][\A c \in Conns :
          /\ closedBy'[c] \in TransportFailures => pc'[c] = "closed"
          /\ pc[c] = "closed"
             => (ConnState(c)' = ConnState(c) /\ closedBy'[c] = closedBy[c])
          /\ (pc[c] # "closed" /\ closedBy'[c] \in TransportFailures)
             => /\ frames'[c] = frames[c] /\ wire'[c] = wire[c]
                /\ nread'[c] = nread[c] /\ execCount'[c] = execCount[c]
                /\ listening' = listening
                /\ failedInARowCount' = failedInARowCount
                /\ \A d \in Conns \ {c} :
                      ConnState(d)' = ConnState(d) /\ closedBy'[d] = closedBy[d]]_vars

\* one connection has ended by a transport failure and another one is
\* about to write its response
C8_Witness ==
    \E c, d \in Conns :
        /\ c # d
        /\ pc[c] = "closed" /\ closedBy[c] \in TransportFailures
        /\ pc[d] = "respond" /\ response[d] # ""

\* the command passes the validation of its arguments and of its UPS name
PassesValidation(cmd, cfg) ==
    \/ HasPrefix(cmd, "LIST VAR ") /\ StrFrom(cmd, 9) = cfg.upsName
    \/ /\ HasPrefix(cmd, "GET VAR ")
       /\ Len(Tokens(cmd)) = 2
       /\ Tokens(cmd)[1] = cfg.upsName

(***************************************************************************)
(* C9: the dispatch of a LIST VAR or GET VAR command that passes the       *)
(* validation starts the external tool exactly once, whatever the stored   *)
(* timestamp, and nothing else starts it: the runs of a session are as     *)
(* many as such commands.                                                  *)
(***************************************************************************)
C9_OneRunPerValidCommand ==
    [][\A c \in Conns :
          execCount'[c] = execCount[c] +
              (IF /\ pc[c] = "dispatch"
                  /\ pc'[c] # "dispatch"
                  /\ PassesValidation(command[c], config)
               THEN 1 ELSE 0)]_vars

\* the tool runs a second time although the snapshot was refreshed at the
\* current time
C9_Witness ==
    \E c \in Conns :
        /\ pc[c] = "exec"
        /\ execCount[c] = 2
        /\ apcValues[c].refreshTime = now
        /\ HasPrefix(command[c], "GET VAR ")

(***************************************************************************)
(* C10: sessions share no mutable state: no step of one connection, a      *)
(* successful or a failed reload included, changes the snapshot or the     *)
(* timestamp another connection sees.                                      *)
(***************************************************************************)
C10_CachesAreDisjoint ==
    [][\A c, d \in Conns :
          (c # d /\ pc'[d] # pc[d])
          => apcValues'[CacheOf(c)] = apcValues[CacheOf(c)]]_vars

\* two sessions hold different snapshots, each from its own reload
C10_Witness ==
    /\ execCount[1] = 1 /\ execCount[2] = 1
    /\ apcValues[1].values # EmptyMap
    /\ apcValues[2].values # EmptyMap
    /\ apcValues[1].values # apcValues[2].values

(***************************************************************************)
(* C11: no command changes the configuration or the variable registry.     *)
(* The configuration and the keys of the registry are the same after every *)
(* step, and a SET VAR leaves the snapshot and every resolver's result as  *)
(* they were, so that a GET VAR of the same variable against the same      *)
(* telemetry gives what it gave before.                                    *)
(***************************************************************************)
C11_SetVarChangesNothing ==
    [][/\ config' = config
       /\ DOMAIN config'.vars = DOMAIN config.vars
       /\ \A c \in Conns :
             (pc[c] = "dispatch" /\ pc'[c] # "dispatch"
                /\ HasPrefix(command[c], "SET VAR "))
             => /\ apcValues'[c] = apcValues[c]
                /\ execCount'[c] = execCount[c]
                /\ \A v \in DOMAIN config.vars :
                      Load(config'.vars[v], v, config', apcValues'[c])
                         = Load(config.vars[v], v, config, apcValues[c])]_vars

\* a SET VAR of a registry variable was refused after an earlier command
\* of the session had filled the snapshot
C11_Witness ==
    \E c \in Conns :
        /\ Answered(c)
        /\ command[c] = "SET VAR " \o config.upsName \o " device.type"
        /\ response[c] = "ERR READONLY"
        /\ apcValues[c].values # EmptyMap

\* the registry entries whose resolver gives a non-empty value
ListedVars(cfg, av) ==
    {n \in DOMAIN cfg.vars : Load(cfg.vars[n], n, cfg, av).value # ""}

(***************************************************************************)
(* C12: the response of a successful LIST VAR for the configured UPS is    *)
(* the line BEGIN LIST VAR <ups>, then exactly one line VAR <ups> <name>   *)
(* "<value>" for each registry entry whose resolver gives a non-empty      *)
(* value and none for the others, then the line END LIST VAR <ups>.        *)
(***************************************************************************)
C12_ListVarListing ==
    \A c \in Conns :
        (Answered(c) /\ command[c] = "LIST VAR " \o config.upsName /\ err[c] = "")
        => LET ls     == StrSplit(response[c], "\n")
               listed == ListedVars(config, apcValues[c])
               k      == Cardinality(listed)
           IN  /\ Len(ls) = k + 3
               /\ ls[1] = "BEGIN LIST VAR " \o config.upsName
               /\ {ls[i] : i \in 2..(k + 1)}
                     = {"VAR " \o config.upsName \o " " \o n \o " \""
                           \o Load(config.vars[n], n, config, apcValues[c]).value \o "\"" :
                        n \in listed}
               /\ ls[k + 2] = "END LIST VAR " \o config.upsName
               /\ ls[k + 3] = ""

\* a listing without the serial number, which the telemetry lacks
C12_Witness ==
    \E c \in Conns :
        /\ Answered(c)
        /\ command[c] = "LIST VAR " \o config.upsName
        /\ err[c] = ""
        /\ ListedVars(config, apcValues[c]) = {"device.type", "battery.runtime"}
        /\ response[c] # ""
\* the first of the status rules, in the order the map literal declares
\* them after ONLINE, whose key occurs in value; 0 when none does
FirstRule(value) ==
    LET hits == {i \in 2..Len(StatusKeys) : StrContains(value, StatusKeys[i])}
    IN  IF hits = {} THEN 0 ELSE CHOOSE i \in hits : \A j \in hits : i <= j

(***************************************************************************)
(* C13 (as claimed): for a non-empty STATUS without "ONLINE", UpsStatus    *)
(* gives "<prefix> <raw-status>" for the first rule, in the order ONBATT,  *)
(* LOWBATT, CAL, OVERLOAD, TRIM, BOOST, REPLACEBATT, SHUTTING DOWN,        *)
(* COMMLOST, whose key occurs in the value, also when several occur, and   *)
(* the empty string when none occurs.                                      *)
(***************************************************************************)
C13_StatusRulePriority ==
    LET status == get(apcValues[1], "STATUS")
        rule   == FirstRule(status)
    IN  (/\ loaded.called
         /\ loaded.loader.kind = "UpsStatus"
         /\ status # ""
         /\ ~StrContains(status, "ONLINE"))
        => /\ loaded.err = ""
           /\ loaded.value = IF rule = 0 THEN ""
                             ELSE statusToResultMappings[StatusKeys[rule]] \o " " \o status
(***************************************************************************)
(* C14: a GET VAR or SET VAR whose text after the keyword does not split   *)
(* on single spaces into exactly two tokens is answered                    *)
(* "ERR INVALID-ARGUMENT"; a SET VAR with exactly two tokens of which the  *)
(* first is the configured UPS name is answered "ERR READONLY", whether    *)
(* the variable is in the registry or not.                                 *)
(***************************************************************************)
C14_ArgumentCount ==
    \A c \in Conns :
        (Answered(c) /\ (HasPrefix(command[c], "GET VAR ") \/ HasPrefix(command[c], "SET VAR ")))
        => /\ Len(Tokens(command[c])) # 2
              => (response[c] = "ERR INVALID-ARGUMENT" /\ err[c] = ""
                    /\ ~closeConnection[c] /\ ~lastRun[c].ran)
           /\ (/\ HasPrefix(command[c], "SET VAR ")
               /\ Len(Tokens(command[c])) = 2
               /\ Tokens(command[c])[1] = config.upsName)
              => (response[c] = "ERR READONLY" /\ err[c] = "" /\ ~closeConnection[c])

\* a SET VAR of a variable that is not in the registry was refused as
\* read-only
C14_Witness ==
    \E c \in Conns :
        /\ Answered(c)
        /\ command[c] = "SET VAR " \o config.upsName \o " missing"
        /\ response[c] = "ERR READONLY"
\* the responses of the protocol that do not depend on the configuration
FixedResponses ==
    {"OK", "OK Goodbye", "ERR UNKNOWN-UPS", "ERR FEATURE-NOT-CONFIGURED",
     "ERR UNKNOWN-COMMAND", "ERR INVALID-ARGUMENT", "ERR VAR-NOT-SUPPORTED",
     "ERR READONLY"}

\* the command matches one of the patterns of the interpreter
MatchesPattern(cmd) ==
    \/ \E kw \in {"LOGIN ", "USERNAME ", "PASSWORD ", "LIST VAR ", "GET VAR ", "SET VAR "} :
          HasPrefix(cmd, kw)
    \/ cmd \in {"LOGOUT", "STARTTLS", "LIST UPS"}

(***************************************************************************)
(* C15: commandReceived answers every line.  Without an error the response *)
(* is one of the fixed responses, a listing or a VAR line; an error comes  *)
(* only from the refresh or from a resolver, after the tool has run, never *)
(* from the form of the line; and a line that matches no pattern, a bare   *)
(* keyword included, is answered "ERR UNKNOWN-COMMAND", connection kept,   *)
(* no error.                                                               *)
(***************************************************************************)
C15_EveryLineAnswered ==
    \A c \in Conns :
        Answered(c)
        => /\ err[c] = ""
              => \/ response[c] \in FixedResponses
                 \/ HasPrefix(response[c], "BEGIN LIST UPS\n")
                 \/ HasPrefix(response[c], "BEGIN LIST VAR " \o config.upsName \o "\n")
                 \/ HasPrefix(response[c], "VAR " \o config.upsName \o " ")
           /\ err[c] # ""
              => (response[c] = "" /\ lastRun[c].ran /\ ~closeConnection[c])
           /\ ~MatchesPattern(command[c])
              => (response[c] = "ERR UNKNOWN-COMMAND" /\ ~closeConnection[c]
                    /\ err[c] = "")

\* the bare keyword GET VAR was answered as an unknown command
C15_Witness ==
    \E c \in Conns :
        /\ Answered(c)
        /\ command[c] = "GET VAR"
        /\ response[c] = "ERR UNKNOWN-COMMAND"
        /\ err[c] = ""
(***************************************************************************)
(* C16: the accept loop ends exactly at the third failure in a row.  The   *)
(* counter is below 3 while the loop runs; it grows by one at a failure    *)
(* and goes back to zero at every successful accept; the loop ends in the  *)
(* step that takes the counter from 2 to 3 and in no other, and does not   *)
(* start again.                                                            *)
(***************************************************************************)
C16_ThreeFailuresInARow ==
    [][/\ listening => failedInARowCount < 3
       /\ listening' => failedInARowCount' < 3
       /\ (listening /\ ~listening')
             <=> (failedInARowCount = 2 /\ failedInARowCount' = 3)
       /\ ~listening => ~listening'
       /\ failedInARowCount' \in {0, failedInARowCount, failedInARowCount + 1}
       /\ (\E c \in Conns : pc[c] = "none" /\ pc'[c] # "none")
             => (failedInARowCount' = 0 /\ listening')]_vars

\* the loop has ended after it had accepted every connection: the three
\* failures came after successful accepts
C16_Witness ==
    /\ ~listening
    /\ failedInARowCount = 3
    /\ \A c \in Conns : pc[c] # "none"
\* the registry entries whose resolver fails
FailingVars(cfg, av) ==
    {n \in DOMAIN cfg.vars : Load(cfg.vars[n], n, cfg, av).err # ""}

(***************************************************************************)
(* C17: LIST VAR is all or nothing.  When the refresh succeeded and the    *)
(* resolver of some registry entry fails, the response is empty and the    *)
(* error is that of a failing entry, in whatever order the entries are     *)
(* visited: no part of the listing is returned.                            *)
(***************************************************************************)
C17_ListVarAllOrNothing ==
    \A c \in Conns :
        (/\ Answered(c)
         /\ command[c] = "LIST VAR " \o config.upsName
         /\ lastRun[c].ran
         /\ err[c] \notin ReloadErrors
         /\ FailingVars(config, apcValues[c]) # {})
        => /\ response[c] = ""
           /\ ~closeConnection[c]
           /\ \E n \in FailingVars(config, apcValues[c]) :
                 err[c] = "Couldn't load variable " \o n \o ": "
                             \o Load(config.vars[n], n, config, apcValues[c]).err

\* the listing was given up for the runtime although the type and the
\* serial number resolve
C17_Witness ==
    \E c \in Conns :
        /\ Answered(c)
        /\ command[c] = "LIST VAR " \o config.upsName
        /\ response[c] = ""
        /\ FailingVars(config, apcValues[c]) = {"battery.runtime"}
        /\ ListedVars(config, apcValues[c]) = {"device.type", "device.serial"}
        /\ HasPrefix(err[c], "Couldn't load variable battery.runtime: ")
\* the value the last line with key k gives in a well-formed output
LastValueOf(out, k) ==
    LET ls   == ScanLines(out)
        with == {i \in DataLines(out) : KeyOfLine(ls[i]) = k}
        last == CHOOSE i \in with : \A j \in with : j <= i
    IN  TrimSpace(StrFrom(ls[last], StrIndex(ls[last], ":") + 1))

(***************************************************************************)
(* C18: reload reads the output line by line.  Blank lines are skipped, a  *)
(* line without the separator fails the reload, and after a successful     *)
(* reload the snapshot has one entry for each key, the trimmed text before *)
(* the separator of a line, with the trimmed text after the separator of   *)
(* the last line that has this key; " STATUS : ONLINE\n UPSNAME : name\n"  *)
(* gives exactly STATUS -> ONLINE and UPSNAME -> name.                     *)
(***************************************************************************)
C18_ReloadParsesLines ==
    (pc[1] = "none" /\ lastRun[1].ran /\ ~lastRun[1].err)
    => LET out    == lastRun[1].out
           values == apcValues[1].values
       IN  IF Malformed(out) THEN err[1] = "Invalid line in apcaccess output"
           ELSE /\ err[1] = ""
                /\ DOMAIN values = KeysOf(out)
                /\ \A k \in KeysOf(out) : values[k] = LastValueOf(out, k)
                /\ out = " STATUS : ONLINE\n UPSNAME : name\n"
                      => values = [k \in {"STATUS", "UPSNAME"} |->
                                      IF k = "STATUS" THEN "ONLINE" ELSE "name"]

\* two lines with the key STATUS: the value of the second is stored
C18_Witness ==
    /\ pc[1] = "none"
    /\ lastRun[1].ran
    /\ lastRun[1].out = " STATUS : ONLINE\nSTATUS: ONBATT LOWBATT\n"
    /\ err[1] = ""
    /\ apcValues[1].values = [k \in {"STATUS"} |-> "ONBATT LOWBATT"]
(***************************************************************************)
(* C19: for a STATUS that contains "ONLINE", UpsStatus gives               *)
(* "CHRG <raw-status>" exactly when BCHARGE is present, not empty and a    *)
(* number strictly below 100, and "OL <raw-status>" in every other case;   *)
(* a BCHARGE that is no number gives no error.                             *)
(***************************************************************************)
C19_OnlineCharging ==
    LET status   == get(apcValues[1], "STATUS")
        bcharge  == getOk(apcValues[1], "BCHARGE")
        p        == ParseDecimal(bcharge.val)
        charging == /\ bcharge.found
                    /\ bcharge.val # ""
                    /\ p.ok
                    /\ (p.neg \/ p.num < 100 * p.den)
    IN  (loaded.called /\ loaded.loader.kind = "UpsStatus" /\ StrContains(status, "ONLINE"))
        => /\ loaded.err = ""
           /\ loaded.value = IF charging THEN "CHRG " \o status ELSE "OL " \o status

\* a battery at 99.9 percent is reported as charging
C19_Witness ==
    /\ loaded.called
    /\ loaded.loader.kind = "UpsStatus"
    /\ get(apcValues[1], "STATUS") = "ONLINE"
    /\ get(apcValues[1], "BCHARGE") = "99.9"
    /\ loaded.value = "CHRG ONLINE"
(***************************************************************************)
(* C20 (as claimed): ApcValueMinInSec turns the string that ApcValue(key,  *)
(* fallback) resolves, from the snapshot or from the fallback, from        *)
(* minutes into seconds: a numeral m gives the decimal string of m * 60    *)
(* truncated toward zero.                                                  *)
(***************************************************************************)
C20_MinutesToSeconds ==
    LET resolved == Load(ApcValue(loaded.loader.apcKey, loaded.loader.fallback), "name",
                         config, apcValues[1])
        p        == ParseDecimal(resolved.value)
        seconds  == (p.num * 60) \div p.den
    IN  (/\ loaded.called
         /\ loaded.loader.kind = "ApcValueMinInSec"
         /\ resolved.err = ""
         /\ p.ok)
        => /\ loaded.err = ""
           /\ loaded.value = Itoa(IF p.neg THEN -seconds ELSE seconds)
\* the decimal numerals: an optional sign, digits, and at most one point
\* among them
IsNumeral(s) ==
    LET body   == IF HasPrefix(s, "-") \/ HasPrefix(s, "+") THEN StrFrom(s, 1) ELSE s
        points == {i \in 1..Len(body) : SubSeq(body, i, i) = "."}
    IN  /\ Cardinality(points) <= 1
        /\ \E i \in 1..Len(body) : IsDigit(SubSeq(body, i, i))
        /\ \A i \in 1..Len(body) : i \in points \/ IsDigit(SubSeq(body, i, i))

(***************************************************************************)
(* C21: ApcValueMinInSec(key, fallback) gives the empty string and no      *)
(* error when the resolved value is empty (the key absent and the fallback *)
(* IgnoreValue, or the key present with an empty value); it gives an empty *)
(* result and an error that names the key and the raw text when the        *)
(* resolved value is not empty and no number; and when the key is absent   *)
(* and the fallback fails it gives an empty result and the fallback's      *)
(* error.                                                                  *)
(***************************************************************************)
C21_MinInSecErrors ==
    LET key      == loaded.loader.apcKey
        fallback == loaded.loader.fallback
        raw      == getOk(apcValues[1], key)
        resolved == IF raw.found THEN raw.val ELSE fallback.value
    IN  (loaded.called /\ loaded.loader.kind = "ApcValueMinInSec")
        => IF ~raw.found /\ fallback = FailingVarLoader
           THEN loaded.value = "" /\ loaded.err = "FailingVarLoader"
           ELSE /\ resolved = "" => (loaded.value = "" /\ loaded.err = "")
                /\ (resolved # "" /\ ~IsNumeral(resolved))
                      => /\ loaded.value = ""
                         /\ StrContains(loaded.err, key)
                         /\ StrContains(loaded.err, resolved)

\* TIMELEFT is "x": an empty result and an error naming TIMELEFT and x
C21_Witness ==
    /\ loaded.called
    /\ loaded.loader.kind = "ApcValueMinInSec"
    /\ get(apcValues[1], "TIMELEFT") = "x"
    /\ loaded.value = ""
    /\ StrContains(loaded.err, "TIMELEFT value x ")
\* the substrings UpsSelfTest looks for, in the order of its tests, and the
\* text each one stands for
SelfTestCodes == <<"OK", "BT", "NG", "NO">>

SelfTestTexts ==
    <<"OK - Battery GOOD", "FAILED - Battery Capacity LOW", "FAILED - Overload",
      "No Test in the last 5mins">>

(***************************************************************************)
(* C22: UpsSelfTest gives the text of the first of OK, BT, NG, NO (in this *)
(* order) that occurs in the SELFTEST value, also when several of them     *)
(* occur; an absent or empty SELFTEST and a value with none of them give   *)
(* the empty string; and it never gives an error.                          *)
(***************************************************************************)
C22_SelfTestFirstMatch ==
    LET value   == get(apcValues[1], "SELFTEST")
        matches == {i \in DOMAIN SelfTestCodes : StrContains(value, SelfTestCodes[i])}
        first   == CHOOSE i \in matches : \A j \in matches : i <= j
    IN  (loaded.called /\ loaded.loader.kind = "UpsSelfTest")
        => /\ loaded.err = ""
           /\ loaded.value = IF matches = {} THEN "" ELSE SelfTestTexts[first]

\* "NOT OK" contains both NO and OK, and OK decides
C22_Witness ==
    /\ loaded.called
    /\ loaded.loader.kind = "UpsSelfTest"
    /\ get(apcValues[1], "SELFTEST") = "NOT OK"
    /\ loaded.value = "OK - Battery GOOD"
\* s ends with a newline that no other newline precedes
EndsWithOneNewline(s) ==
    /\ Len(s) >= 1
    /\ SubSeq(s, Len(s), Len(s)) = "\n"
    /\ Len(s) >= 2 => SubSeq(s, Len(s) - 1, Len(s) - 1) # "\n"

(***************************************************************************)
(* C23: whatever the handler puts on the connection ends with exactly one  *)
(* newline, for the one-line responses and for the BEGIN/END blocks alike, *)
(* and a handler that goes back to reading after a non-empty response has  *)
(* written and flushed that response first; reading a command puts nothing *)
(* on the connection.                                                      *)
(***************************************************************************)
C23_NewlineAndFlush ==
    [][\A c \in Conns :
          /\ frames'[c] # frames[c]
                => /\ EndsWithOneNewline(wire'[c])
                   /\ pc[c] = "respond"
          /\ (pc[c] = "respond" /\ response[c] # "" /\ pc'[c] = "read")
                => /\ frames'[c] = frames[c] + 1
                   /\ HasPrefix(response[c], StrTo(wire'[c], Len(wire'[c]) - 1))]_vars

\* the block of LIST UPS is on the connection, ended by one newline, and
\* the handler has read the command after it
C23_Witness ==
    /\ pc[1] = "dispatch"
    /\ nread[1] = 2
    /\ frames[1] = 1
    /\ wire[1] = "BEGIN LIST UPS\nUPS " \o config.upsName \o " \""
                 \o config.upsDescription \o "\"\nEND LIST UPS\n"
\* the pieces of a format around its %s verbs with the values between them
RECURSIVE Interleave(_, _, _)
Interleave(pieces, values, i) ==
    IF i > Len(values) THEN pieces[i]
    ELSE pieces[i] \o values[i] \o Interleave(pieces, values, i + 1)

(***************************************************************************)
(* C24: a loader made by FormattedValue calls the loaders of its arguments *)
(* from left to right and stops at the first that fails: its result is     *)
(* then the empty string with that loader's error, and it has called the   *)
(* loaders up to that one and none after it.  When none fails it has       *)
(* called them all and its result is the format with the first %s          *)
(* replaced by the first loader's value, the second by the second's, and   *)
(* so on.                                                                  *)
(***************************************************************************)
C24_LeftToRightUntilFailure ==
    LET children == loaded.loader.varLoaders
        results  == [i \in DOMAIN children |->
                        CallLoader(children[i], "name", config, apcValues[1])]
        failing  == {i \in DOMAIN children : results[i].err # ""}
        first    == CHOOSE i \in failing : \A j \in failing : i <= j
    IN  (loaded.called /\ loaded.loader.kind = "FormattedValue")
        => IF failing # {}
           THEN /\ loaded.value = ""
                /\ loaded.err = results[first].err
                /\ loaded.calls = [j \in 1..first |-> j]
           ELSE /\ loaded.err = ""
                /\ loaded.calls = [j \in DOMAIN children |-> j]
                /\ loaded.value = Interleave(StrSplit(loaded.loader.format, "%s"),
                                             [i \in DOMAIN children |-> results[i].value],
                                             1)

\* the second of three loaders failed and the third was not called
C24_Witness ==
    /\ loaded.called
    /\ loaded.loader.kind = "FormattedValue"
    /\ Len(loaded.loader.varLoaders) = 3
    /\ get(apcValues[1], "UPSNAME") = "name"
    /\ get(apcValues[1], "TIMELEFT") = "x"
    /\ loaded.calls = <<1, 2>>
    /\ loaded.value = ""
    /\ StrContains(loaded.err, "TIMELEFT")
(***************************************************************************)
(* C25: ApcValue(key, fallback) gives the raw value of the snapshot and no *)
(* error whenever the snapshot has the key, also when that value is the    *)
(* empty string, and does not call the fallback then; when the snapshot    *)
(* does not have the key it calls the fallback and gives exactly the       *)
(* fallback's value and error.                                             *)
(***************************************************************************)
C25_RawValueOrFallback ==
    LET key    == loaded.loader.apcKey
        values == apcValues[1].values
        back   == CallLoader(loaded.loader.fallback, "name", config, apcValues[1])
    IN  (loaded.called /\ loaded.loader.kind = "ApcValue")
        => IF key \in DOMAIN values
           THEN loaded.value = values[key] /\ loaded.err = "" /\ loaded.calls = <<>>
           ELSE loaded.value = back.value /\ loaded.err = back.err /\ loaded.calls = <<1>>

\* TIMELEFT is in the snapshot with an empty value, and the fallback that
\* would give "1" was not called
C25_Witness ==
    /\ loaded.called
    /\ loaded.loader = ApcValue("TIMELEFT", NumberVarLoader)
    /\ "TIMELEFT" \in DOMAIN apcValues[1].values
    /\ apcValues[1].values["TIMELEFT"] = ""
    /\ loaded.value = ""
    /\ loaded.calls = <<>>
(***************************************************************************)
(* C26: UpsModel gives the empty string when MODEL is absent or empty,     *)
(* whatever NOMPOWER is; "<model> (<nompower> W)" when MODEL and NOMPOWER  *)
(* are both not empty; the bare MODEL value when NOMPOWER is absent or     *)
(* empty; and never an error.                                              *)
(***************************************************************************)
C26_ModelWithNominalPower ==
    LET model    == get(apcValues[1], "MODEL")
        nomPower == get(apcValues[1], "NOMPOWER")
    IN  (loaded.called /\ loaded.loader.kind = "UpsModel")
        => /\ loaded.err = ""
           /\ loaded.value = IF model = "" THEN ""
                             ELSE IF nomPower = "" THEN model
                             ELSE model \o " (" \o nomPower \o " W)"

\* MODEL is in the snapshot and NOMPOWER is there with an empty value: the
\* bare model
C26_Witness ==
    /\ loaded.called
    /\ loaded.loader.kind = "UpsModel"
    /\ getOk(apcValues[1], "NOMPOWER") = [val |-> "", found |-> TRUE]
    /\ loaded.value = "Back-UPS ES 700G"
\* the commands that ask for variables
AsksForVariables(cmd) == HasPrefix(cmd, "LIST VAR ") \/ HasPrefix(cmd, "GET VAR ")

(***************************************************************************)
(* C27: a command that is refused or needs no telemetry does not touch the *)
(* cache.  Every command other than LIST VAR and GET VAR (LOGIN, USERNAME, *)
(* PASSWORD, LOGOUT, STARTTLS, LIST UPS, SET VAR and the unknown ones) is  *)
(* answered without a run of the tool and with the snapshot and its        *)
(* timestamp as they were, and so is every command that is answered with   *)
(* ERR UNKNOWN-UPS or ERR INVALID-ARGUMENT.                                *)
(***************************************************************************)
C27_NoTelemetryNoReload ==
    [][\A c \in Conns :
          /\ (pc[c] = "dispatch" /\ pc'[c] # "dispatch" /\ ~AsksForVariables(command[c]))
                => /\ pc'[c] = "respond"
                   /\ apcValues'[c] = apcValues[c]
                   /\ execCount'[c] = execCount[c]
                   /\ ~lastRun'[c].ran
          /\ (pc[c] # "respond" /\ pc'[c] = "respond"
                /\ response'[c] \in {"ERR UNKNOWN-UPS", "ERR INVALID-ARGUMENT"})
                => /\ pc[c] = "dispatch"
                   /\ apcValues'[c] = apcValues[c]
                   /\ execCount'[c] = execCount[c]
                   /\ ~lastRun'[c].ran]_vars

\* a LIST VAR for another UPS was refused and the tool has not run
C27_Witness ==
    \E c \in Conns :
        /\ Answered(c)
        /\ HasPrefix(command[c], "LIST VAR ")
        /\ response[c] = "ERR UNKNOWN-UPS"
        /\ execCount[c] = 0
        /\ apcValues[c] = NewApcValues
(***************************************************************************)
(* C28: when the tool cannot be run or exits abnormally, reload returns an *)
(* error and leaves the stored mapping and the timestamp as they were:     *)
(* every lookup gives after the failed reload what it gave before it.      *)
(***************************************************************************)
C28_ExecFailureKeepsSnapshot ==
    [][\A c \in Conns :
          (pc[c] = "exec" /\ lastRun'[c].ran /\ lastRun'[c].err)
          => /\ err'[c] # ""
             /\ apcValues'[c].values = apcValues[c].values
             /\ apcValues'[c].refreshTime = apcValues[c].refreshTime
             /\ \A k \in DOMAIN apcValues[c].values :
                   getOk(apcValues'[c], k) = getOk(apcValues[c], k)]_vars

\* the second refresh of a session failed, and the serial number of the
\* first is still in the snapshot
C28_Witness ==
    \E c \in Conns :
        /\ Answered(c)
        /\ execCount[c] = 2
        /\ lastRun[c].ran
        /\ lastRun[c].err
        /\ err[c] # ""
        /\ get(apcValues[c], "SERIALNO") = "42"
        /\ apcValues[c].refreshTime > 0
(***************************************************************************)
(* C29: the refresh timestamp of a cache starts at the Unix epoch; only a  *)
(* reload that returns success changes it, to the time of that reload; a   *)
(* reload that returns an error, because the tool failed or because a line *)
(* was malformed, leaves it as it was; so it never decreases.              *)
(***************************************************************************)
C29_TimestampOnlyAdvances ==
    [][\A c \in Conns :
          LET before == apcValues[c].refreshTime
              after  == apcValues'[c].refreshTime
              failed == lastRun'[c].err \/ Malformed(lastRun'[c].out)
          IN  /\ (pc[c] = "none" /\ pc'[c] # "none") => after = 0
              /\ after >= before
              /\ after # before
                    => /\ pc[c] = "exec"
                       /\ lastRun'[c].ran
                       /\ ~failed
                       /\ after = now
              /\ (pc[c] = "exec" /\ lastRun'[c].ran /\ failed)
                    => /\ err'[c] \in ReloadErrors
                       /\ after = before]_vars

\* a refresh at time 1 succeeded and a later one hit a malformed line: the
\* timestamp is still 1
C29_Witness ==
    \E c \in Conns :
        /\ Answered(c)
        /\ execCount[c] = 2
        /\ err[c] = "Invalid line in apcaccess output"
        /\ apcValues[c].refreshTime = 1
        /\ now = 2
\* what a session that has received nothing before may answer to cmd when
\* the run of the tool for cmd, if there is one, has the outcome run: the
\* three results of commandReceived on a new cache, for every order in
\* which LIST VAR may visit the registry
FirstAnswers(cmd, cfg, run, t) ==
    {LET r == commandReceived(cmd, cfg, NewApcValues,
                              [err |-> run.err, out |-> run.out], order, t)
     IN  <<r.response, r.closeConnection, r.err>> : order \in Orders(cfg.vars)}

(***************************************************************************)
(* C30: the session keeps no login state.  What a command is answered      *)
(* (response, whether the connection is closed, and the error) depends     *)
(* only on the command line, the configuration and the outcome of the      *)
(* tool's run for that command: after any earlier commands of the session, *)
(* LOGIN, USERNAME and PASSWORD among them or not, it is an answer that a  *)
(* session which has received nothing before gives to the same line.       *)
(***************************************************************************)
C30_NoSessionState ==
    \A c \in Conns :
        Answered(c)
        => <<response[c], closeConnection[c], err[c]>>
              \in FirstAnswers(command[c], config, lastRun[c], now)

\* a GET VAR was answered with the variable as the second command of a
\* session, after a command that was answered OK
C30_Witness ==
    \E c \in Conns :
        /\ Answered(c)
        /\ nread[c] = 2
        /\ wire[c] = "OK\n"
        /\ command[c] = "GET VAR " \o config.upsName \o " device.serial"
        /\ response[c] = VarLine(config, "device.serial", "42")
(***************************************************************************)
(* C31: a connection's commands are handled one at a time, in the order of *)
(* their arrival.  A line is read only by a handler that is waiting for    *)
(* one, with nothing of an earlier command left to write; between two      *)
(* reads at most one response is written; and what is written is the       *)
(* response to the line read last, so the responses are on the connection  *)
(* in the order of their commands.                                         *)
(***************************************************************************)
C31_OneAtATimeInOrder ==
    [][\A c \in Conns :
          /\ nread'[c] # nread[c]
                => /\ nread'[c] = nread[c] + 1
                   /\ pc[c] = "read" /\ pc'[c] = "dispatch"
                   /\ response[c] = ""
                   /\ frames'[c] = frames[c]
                   /\ wire'[c] = wire[c]
          /\ frames'[c] # frames[c]
                => /\ frames'[c] = frames[c] + 1
                   /\ pc[c] = "respond" /\ pc'[c] \in {"read", "closed"}
                   /\ \E a \in FirstAnswers(command[c], config, lastRun[c], now) :
                         a[1] # "" /\ wire'[c] = Framed(a[1])
          /\ frames'[c] <= nread'[c]
          /\ pc'[c] \in {"dispatch", "exec", "respond"} => frames'[c] < nread'[c]]_vars

\* the response to the first command is on the connection and that of the
\* second, another one, is about to be written
C31_Witness ==
    \E c \in Conns :
        /\ Answered(c)
        /\ nread[c] = 2
        /\ frames[c] = 1
        /\ wire[c] = "ERR UNKNOWN-COMMAND\n"
        /\ command[c] = "LIST UPS"
        /\ response[c] # ""
(***************************************************************************)
(* C32: a handler that has received LOGOUT never goes back to reading: it  *)
(* ends, and unless the write or the flush fails it ends in the step that  *)
(* has put "OK Goodbye" on the connection.  After that it reads and        *)
(* dispatches nothing, runs no tool and writes nothing, also when the      *)
(* client has sent more lines.                                             *)
(***************************************************************************)
C32_LogoutEndsSession ==
    [][\A c \in Conns :
          /\ (pc[c] = "respond" /\ command[c] = "LOGOUT" /\ pc'[c] # "respond")
                => /\ pc'[c] = "closed"
                   /\ closedBy'[c] \in {"logout", "write", "flush"}
                   /\ nread'[c] = nread[c]
          /\ (pc[c] # "closed" /\ pc'[c] = "closed" /\ closedBy'[c] = "logout")
                => /\ frames'[c] = frames[c] + 1
                   /\ wire'[c] = "OK Goodbye\n"
          /\ (pc[c] = "closed" /\ closedBy[c] = "logout")
                => /\ pc'[c] = "closed"
                   /\ nread'[c] = nread[c]
                   /\ execCount'[c] = execCount[c]
                   /\ frames'[c] = frames[c]
                   /\ wire'[c] = wire[c]]_vars

\* the session ended with the goodbye to a LOGOUT that was its first line,
\* although the client had another line to send
C32_Witness ==
    \E c \in Conns :
        /\ pc[c] = "closed"
        /\ closedBy[c] = "logout"
        /\ nread[c] = 1
        /\ nread[c] < MaxCmds
        /\ frames[c] = 1
        /\ wire[c] = "OK Goodbye\n"
\* the accept loop and the handler of connection d can take their next
\* step; for a handler whose own tool is running, that run can end
CanGoOn(d) ==
    /\ ENABLED AcceptFails
    /\ (pc[d] = "none" /\ \A e \in Conns : e < d => pc[e] # "none") => ENABLED Accept(d)
    /\ pc[d] = "read" => ENABLED ReadCommand(d, ConcLines(config), MaxConcCmds)
    /\ pc[d] = "dispatch" => ENABLED Dispatch(d)
    /\ pc[d] = "exec" => ENABLED ExecReturns(d, {ExecFailed})
    /\ pc[d] = "respond" => ENABLED Respond(d)

\* while the tool runs for connection c, the accept loop and the handlers
\* of the other connections are not held up
C33_OthersNotBlocked ==
    \A c \in Conns :
        (listening /\ pc[c] = "exec") => \A d \in Conns \ {c} : CanGoOn(d)

\* a handler whose tool is running stays as it is until the tool returns:
\* it reads nothing, writes nothing, and does not end by a deadline
C33_HandlerWaitsForTool ==
    \A c \in Conns :
        pc[c] = "exec"
        => /\ pc'[c] \in {"exec", "respond"}
           /\ closedBy'[c] = closedBy[c]
           /\ nread'[c] = nread[c]
           /\ frames'[c] = frames[c]
           /\ wire'[c] = wire[c]
           /\ pc'[c] = "exec" => ConnState(c)' = ConnState(c)
           /\ pc'[c] = "respond" => lastRun'[c].ran

(***************************************************************************)
(* C33: a refresh whose tool does not return blocks only the connection    *)
(* that issued it.  As long as the tool runs, that connection answers      *)
(* nothing, reads no further command and is not ended by a deadline; the   *)
(* accept loop and every other connection can go on accepting, reading,    *)
(* running their own refresh and answering.                                *)
(***************************************************************************)
C33_RefreshBlocksOnlyItsConnection ==
    []C33_OthersNotBlocked /\ [][C33_HandlerWaitsForTool]_vars

\* the tool of the first connection is still running, and the second
\* connection, accepted after the first, has its answer on the wire
C33_Witness ==
    /\ pc[1] = "exec"
    /\ pc[2] = "read"
    /\ nread[2] = 1
    /\ frames[2] = 1
    /\ wire[2] # ""
\* the responses LIST VAR gives, without an error, for the tool outcome
\* run, one for every order in which it may visit the registry
ListVarResponses(cfg, run, t) ==
    {r.response :
        r \in {rr \in {commandListVar("LIST VAR " \o cfg.upsName, cfg, NewApcValues,
                                      [err |-> run.err, out |-> run.out], order, t) :
                          order \in Orders(cfg.vars)} : rr.err = ""}}

====
